---- MODULE Spec2Model ----
(***************************************************************************)
(* Model of simple-editor-pro's preview pipeline: detectContentType, the   *)
(* lightweight-markup conversion, PreviewPanel.processedContent (the       *)
(* empty-registry rewrite and the html-react-parser tree walk with         *)
(* per-tag renderers), normalizeUrl, isAllowedUri, and the CustomImage     *)
(* dual-URL model with its parse rule.                                     *)
(*                                                                         *)
(* A JavaScript string is a sequence of one-character strings, so that     *)
(* every regular expression of the source is evaluated character by        *)
(* character.                                                              *)
(***************************************************************************)
EXTENDS Integers, Sequences, FiniteSets, TLC

----------------------------------------------------------------------------
(* Characters and string primitives *)

LowerSeq == << "a","b","c","d","e","f","g","h","i","j","k","l","m",
               "n","o","p","q","r","s","t","u","v","w","x","y","z" >>
UpperSeq == << "A","B","C","D","E","F","G","H","I","J","K","L","M",
               "N","O","P","Q","R","S","T","U","V","W","X","Y","Z" >>
Lower == { LowerSeq[i] : i \in DOMAIN LowerSeq }
Upper == { UpperSeq[i] : i \in DOMAIN UpperSeq }
Letters == Lower \cup Upper
DigitSeq == << "0","1","2","3","4","5","6","7","8","9" >>
Digits == { DigitSeq[i] : i \in DOMAIN DigitSeq }
AlNum == Letters \cup Digits
\* \s of a JavaScript regular expression, String.prototype.trim's white space
Ws == { " ", "\t", "\n", "\r" }
Quotes == { "\"", "'" }
\* the grave accent, which a TLA+ string cannot hold
Backtick == "grave"

\* String.prototype.toLowerCase on one character
Lc(c) == IF c \in Upper THEN LowerSeq[CHOOSE i \in DOMAIN UpperSeq : UpperSeq[i] = c]
         ELSE c
toLowerCase(s) == [i \in DOMAIN s |-> Lc(s[i])]

\* s.substring(i-1, j) with 1-based inclusive positions
Sub(s, i, j) == IF i > j THEN << >> ELSE SubSeq(s, i, j)

\* the literal p stands in s at position i
At(s, i, p) == /\ i >= 1
               /\ i + Len(p) - 1 <= Len(s)
               /\ \A k \in 1..Len(p) : s[i + k - 1] = p[k]
\* the same under the regular expression's i flag
AtI(s, i, p) == /\ i >= 1
                /\ i + Len(p) - 1 <= Len(s)
                /\ \A k \in 1..Len(p) : Lc(s[i + k - 1]) = Lc(p[k])
startsWith(s, p) == At(s, 1, p)
includes(s, p) == \E i \in 1..Len(s) : At(s, i, p)
includesI(s, p) == \E i \in 1..Len(s) : AtI(s, i, p)
\* s.indexOf(p), 1-based; 0 when absent (JavaScript's -1)
indexOf(s, p) == IF includes(s, p)
                 THEN CHOOSE i \in 1..Len(s) :
                        At(s, i, p) /\ \A j \in 1..(i - 1) : ~At(s, j, p)
                 ELSE 0
\* the first position >= i whose character is in set C; Len(s)+1 when none
FirstIn(s, i, C) == IF \E j \in i..Len(s) : s[j] \in C
                    THEN CHOOSE j \in i..Len(s) :
                           s[j] \in C /\ \A k \in i..(j - 1) : s[k] \notin C
                    ELSE Len(s) + 1
\* the first position >= i whose character is not in set C; Len(s)+1 when none
FirstNotIn(s, i, C) == IF \E j \in i..Len(s) : s[j] \notin C
                       THEN CHOOSE j \in i..Len(s) :
                              s[j] \notin C /\ \A k \in i..(j - 1) : s[k] \in C
                       ELSE Len(s) + 1
\* String.prototype.trim
trim(s) == LET a == FirstNotIn(s, 1, Ws)
           IN  IF a > Len(s) THEN << >>
               ELSE LET b == CHOOSE j \in a..Len(s) :
                               s[j] \notin Ws /\ \A k \in (j + 1)..Len(s) : s[k] \in Ws
                    IN  Sub(s, a, b)

\* words of the source, spelled out
HTTPS_PREFIX == << "h","t","t","p","s",":","/","/" >>
HREF == << "h","r","e","f" >>
HREF_EQ == << "h","r","e","f","=" >>
TARGET == << "t","a","r","g","e","t" >>
TARGET_EQ == << "t","a","r","g","e","t","=" >>
REL == << "r","e","l" >>
REL_EQ == << "r","e","l","=" >>
BLANK == << "_","b","l","a","n","k" >>
\* the text of an attribute: a space, the name, =, the value between quotes q
Attr(name, q, value) == << " " >> \o name \o << "=" >> \o q \o value \o q
NOOPENER == << "n","o","o","p","e","n","e","r"," ",
               "n","o","r","e","f","e","r","r","e","r" >>

----------------------------------------------------------------------------
(* isAllowedUri, src/lib/tiptap-utils.ts *)

NBSP == "nbsp"
\* ATTR_WHITESPACE, of which these are the characters the model writes
AttrWhitespace == { " ", "\t", "\n", "\r", NBSP }
IsAttrWhitespace(c) == c \in AttrWhitespace
\* the ten schemes of lines 410-421
HTTP == << "h", "t", "t", "p" >>
AllowedProtocols ==
    { HTTP, HTTP \o << "s" >>, << "f", "t", "p" >>, << "f", "t", "p", "s" >>,
      << "m", "a", "i", "l", "t", "o" >>, << "t", "e", "l" >>,
      << "c", "a", "l", "l", "t", "o" >>, << "s", "m", "s" >>,
      << "c", "i", "d" >>, << "x", "m", "p", "p" >> }
\* a scheme, spliced into the expression as it is, at the start of t with ':'
\* after it: a '.' of the scheme is the expression's wildcard
ProtocolMatches(t, p) ==
    /\ Len(t) > Len(p)
    /\ \A i \in DOMAIN p : p[i] = "." \/ Lc(t[i]) = Lc(p[i])
    /\ t[Len(p) + 1] = ":"
\* [a-z0-9+.\-] of the template: the class of letters, digits, '+', '.', '-'
UriRunChars == AlNum \cup { "+", ".", "-" }
\* [^a-z+.\-:] of the template: the backslash is dropped when the template is
\* read, which leaves the class [^a-z+.-:], whose .-: is the range from '.' to
\* ':', that is '.', '/', the digits and ':'; '-' is not in it
UriRunEnders(c) == c \notin Letters \cup { "+", ".", "/", ":" } \cup Digits
\* [a-z0-9+.\-]+(?:[^a-z+.\-:]|$) at the start of t
UriRunMatches(t) ==
    \E k \in 1..Len(t) :
        /\ \A j \in 1..k : t[j] \in UriRunChars
        /\ k = Len(t) \/ UriRunEnders(t[k + 1])
isAllowedUri(uri, extra) ==
    \/ uri = << >>
    \/ LET t == SelectSeq(uri, LAMBDA c : ~IsAttrWhitespace(c))
       IN  \/ \E p \in AllowedProtocols \cup extra : ProtocolMatches(t, p)
           \/ t # << >> /\ t[1] \notin Letters
           \/ UriRunMatches(t)

----------------------------------------------------------------------------
(* normalizeUrl, src/lib/tiptap-utils.ts *)

\* /^https?:\/\//i
HasHttpScheme(t) == \/ AtI(t, 1, << "h","t","t","p",":","/","/" >>)
                    \/ AtI(t, 1, HTTPS_PREFIX)
\* /^[a-z][a-z0-9+.-]*:/i
HasScheme(t) == /\ Len(t) >= 2
                /\ t[1] \in Letters
                /\ LET c == FirstNotIn(t, 2, AlNum \cup { "+", ".", "-" })
                   IN  c <= Len(t) /\ t[c] = ":"
\* /^[a-z0-9]([a-z0-9-]*[a-z0-9])?(\.[a-z0-9]([a-z0-9-]*[a-z0-9])?)+/i : the
\* expression is anchored at the start only, so it asks for a first label that
\* begins and ends alphanumeric, a dot, and one alphanumeric after the dot
LooksLikeDomain(t) == /\ Len(t) >= 3
                      /\ t[1] \in AlNum
                      /\ LET d == FirstNotIn(t, 1, AlNum \cup { "-" })
                         IN  /\ d + 1 <= Len(t)
                             /\ t[d] = "."
                             /\ t[d - 1] \in AlNum
                             /\ t[d + 1] \in AlNum

\* a normalizer that never adds a prefix
normalizeUrlNoPrefix(url) == trim(url)
\* a normalizer that puts the prefix before the text as given, untrimmed
normalizeUrlPrefixesUntrimmed(url) ==
    IF url = << >> THEN url
    ELSE LET trimmedUrl == trim(url)
         IN  IF HasHttpScheme(trimmedUrl) \/ HasScheme(trimmedUrl) THEN trimmedUrl
             ELSE IF \/ startsWith(trimmedUrl, << "/" >>)
                     \/ startsWith(trimmedUrl, << "#" >>)
                     \/ trimmedUrl = << >>
                  THEN trimmedUrl
             ELSE IF LooksLikeDomain(trimmedUrl) THEN HTTPS_PREFIX \o url
             ELSE trimmedUrl
\* a normalizer that takes only http: and https: for schemes
normalizeUrlHttpOnly(url) ==
    LET trimmedUrl == trim(url)
    IN  IF HasHttpScheme(trimmedUrl) THEN trimmedUrl
        ELSE IF LooksLikeDomain(trimmedUrl) THEN HTTPS_PREFIX \o trimmedUrl
        ELSE trimmedUrl
normalizeUrl(url) ==
    IF url = << >> THEN url
    ELSE LET trimmedUrl == trim(url)
         IN  IF HasHttpScheme(trimmedUrl) THEN trimmedUrl
             ELSE IF HasScheme(trimmedUrl) THEN trimmedUrl
             ELSE IF \/ startsWith(trimmedUrl, << "/" >>)
                     \/ startsWith(trimmedUrl, << "#" >>)
                     \/ trimmedUrl = << >>
                  THEN trimmedUrl
             ELSE IF LooksLikeDomain(trimmedUrl) THEN HTTPS_PREFIX \o trimmedUrl
             ELSE trimmedUrl

----------------------------------------------------------------------------
(* detectContentType, PreviewPanel.tsx lines 118-176 *)

\* what '.' refuses and what '^' and '$' of the m flag look for
LineTerm == { "\n", "\r" }
LineStart(s, i) == i = 1 \/ (i > 1 /\ s[i - 1] \in LineTerm)
LineEnd(s, i) == i = Len(s) \/ (i < Len(s) /\ s[i + 1] \in LineTerm)
\* .* can run over s[i..j]
Dots(s, i, j) == \A k \in i..j : s[k] \notin LineTerm

\* <\/?[a-z] at position i (closing: <\/[a-z]), and then [\s\S]*> : some '>'
\* stands after the letter
TagMatchAt(s, i, closing) ==
    /\ i <= Len(s)
    /\ s[i] = "<"
    /\ \/ /\ ~closing
          /\ i + 1 <= Len(s) /\ s[i + 1] \in Letters
          /\ \E j \in (i + 2)..Len(s) : s[j] = ">"
       \/ /\ i + 2 <= Len(s) /\ s[i + 1] = "/" /\ s[i + 2] \in Letters
          /\ \E j \in (i + 3)..Len(s) : s[j] = ">"

\* the number of matches of /<\/?[a-z][\s\S]*>/gi (closing: /<\/[a-z][\s\S]*>/gi)
\* from position p on: each match starts at the leftmost tag opening and, the
\* star being greedy, ends at the last '>' of the text
RECURSIVE CountTagMatches(_, _, _)
CountTagMatches(s, p, closing) ==
    LET starts == { i \in p..Len(s) : TagMatchAt(s, i, closing) }
    IN  IF starts = {} THEN 0
        ELSE LET lastGt == CHOOSE j \in 1..Len(s) :
                             s[j] = ">" /\ \A k \in (j + 1)..Len(s) : s[k] # ">"
             IN  1 + CountTagMatches(s, lastGt + 1, closing)

hasHtmlTags(trimmed) == \E i \in 1..Len(trimmed) : TagMatchAt(trimmed, i, FALSE)
htmlTagCount(trimmed) == CountTagMatches(trimmed, 1, FALSE)
closingTagCount(trimmed) == CountTagMatches(trimmed, 1, TRUE)

\* the rule of line 134
ClosingTagRule(trimmed) ==
    hasHtmlTags(trimmed) /\ closingTagCount(trimmed) > 0 /\ htmlTagCount(trimmed) >= 2

\* \(  [^)]+  \) with the '(' at position i
ParenAt(s, i) == /\ i + 2 <= Len(s)
                 /\ s[i] = "("
                 /\ s[i + 1] # ")"
                 /\ FirstIn(s, i + 1, { ")" }) <= Len(s)
\* \[  [^\]]*  \]  \( [^)]+ \) with the '[' at position i
BracketParenAt(s, i) ==
    /\ i <= Len(s)
    /\ s[i] = "["
    /\ LET c == FirstIn(s, i + 1, { "]" })
       IN  c <= Len(s) /\ ParenAt(s, c + 1)

\* markdownPatterns, lines 139-153, in their order
MdHeading(s) ==      \* /#{1,6}\s+.+/m
    \E i \in 1..Len(s) : \E j \in (i + 1)..(Len(s) - 1) :
        /\ s[i] = "#"
        /\ \A k \in (i + 1)..j : s[k] \in Ws
        /\ s[j + 1] \notin LineTerm
MdBold(s) ==         \* /\*\*.*?\*\*/m
    \E i \in 1..Len(s) : \E j \in (i + 2)..Len(s) :
        At(s, i, << "*", "*" >>) /\ At(s, j, << "*", "*" >>) /\ Dots(s, i + 2, j - 1)
MdItalic(s) ==       \* /\*[^*\n].*?\*/m
    \E i \in 1..Len(s) : \E j \in (i + 2)..Len(s) :
        /\ s[i] = "*"
        /\ s[i + 1] \notin { "*", "\n" }
        /\ s[j] = "*"
        /\ Dots(s, i + 2, j - 1)
MdBullet(s) ==       \* /^\- .+/m
    \E i \in 1..Len(s) :
        LineStart(s, i) /\ At(s, i, << "-", " " >>)
          /\ i + 2 <= Len(s) /\ s[i + 2] \notin LineTerm
MdOrdered(s) ==      \* /^\d+\. .+/m
    \E i \in 1..Len(s) :
        /\ LineStart(s, i)
        /\ s[i] \in Digits
        /\ LET d == FirstNotIn(s, i, Digits)
           IN  At(s, d, << ".", " " >>) /\ d + 2 <= Len(s) /\ s[d + 2] \notin LineTerm
MdFence(s) ==        \* /```[\s\S]*?```/m
    \E i \in 1..Len(s) : \E j \in (i + 3)..Len(s) :
        At(s, i, << Backtick, Backtick, Backtick >>)
          /\ At(s, j, << Backtick, Backtick, Backtick >>)
MdCode(s) ==         \* /`[^`\n]+`/m
    \E i \in 1..Len(s) :
        /\ s[i] = Backtick
        /\ LET c == FirstIn(s, i + 1, { Backtick, "\n" })
           IN  c <= Len(s) /\ s[c] = Backtick /\ c > i + 1
MdLink(s) ==         \* /\[([^\]]*)\]\([^)]+\)/m
    \E i \in 1..Len(s) : BracketParenAt(s, i)
MdImageEmpty(s) ==   \* /!\[\]\([^)]+\)/m
    \E i \in 1..Len(s) : At(s, i, << "!", "[", "]" >>) /\ ParenAt(s, i + 3)
MdImage(s) ==        \* /!\[[^\]]*\]\([^)]+\)/m
    \E i \in 1..Len(s) : s[i] = "!" /\ BracketParenAt(s, i + 1)
MdQuote(s) ==        \* /^> .+/m
    \E i \in 1..Len(s) :
        LineStart(s, i) /\ At(s, i, << ">", " " >>)
          /\ i + 2 <= Len(s) /\ s[i + 2] \notin LineTerm
MdRule(s) ==         \* /^---$/m
    \E i \in 1..Len(s) :
        LineStart(s, i) /\ At(s, i, << "-", "-", "-" >>) /\ LineEnd(s, i + 2)
MdTable(s) ==        \* /\|.+\|/m
    \E i \in 1..Len(s) : \E j \in (i + 2)..Len(s) :
        s[i] = "|" /\ s[j] = "|" /\ Dots(s, i + 1, j - 1)

B2N(b) == IF b THEN 1 ELSE 0
\* lines 155-157
markdownScore(s) ==
    B2N(MdHeading(s)) + B2N(MdBold(s)) + B2N(MdItalic(s)) + B2N(MdBullet(s))
    + B2N(MdOrdered(s)) + B2N(MdFence(s)) + B2N(MdCode(s)) + B2N(MdLink(s))
    + B2N(MdImageEmpty(s)) + B2N(MdImage(s)) + B2N(MdQuote(s)) + B2N(MdRule(s))
    + B2N(MdTable(s))

\* the classifier with the branch of line 160 tested on the tags alone
detectContentTypeTagsFirst(text) ==
    IF text = << >> \/ trim(text) = << >> THEN "html"
    ELSE LET trimmed == trim(text)
         IN  IF ClosingTagRule(trimmed) THEN "html"
             ELSE IF hasHtmlTags(trimmed) THEN "html"
             ELSE IF markdownScore(trimmed) > 0 THEN "markdown"
             ELSE "html"
\* the classifier with 'markdown' for its last answer
detectContentTypeMarkdownByDefault(text) ==
    IF text = << >> \/ trim(text) = << >> THEN "html"
    ELSE LET trimmed == trim(text)
         IN  IF ClosingTagRule(trimmed) THEN "html"
             ELSE IF hasHtmlTags(trimmed) /\ markdownScore(trimmed) = 0 THEN "html"
             ELSE IF markdownScore(trimmed) > 0 THEN "markdown"
             ELSE IF startsWith(trimmed, << "<" >>) /\ includes(trimmed, << ">" >>)
                  THEN "html"
             ELSE "markdown"
\* the classifier with 'markdown' for a blank text
detectContentTypeBlankIsMarkdown(text) ==
    IF text = << >> \/ trim(text) = << >> THEN "markdown"
    ELSE LET trimmed == trim(text)
         IN  IF ClosingTagRule(trimmed) THEN "html"
             ELSE IF hasHtmlTags(trimmed) /\ markdownScore(trimmed) = 0 THEN "html"
             ELSE IF markdownScore(trimmed) > 0 THEN "markdown"
             ELSE "html"
detectContentType(text) ==
    IF text = << >> \/ trim(text) = << >> THEN "html"
    ELSE LET trimmed == trim(text)
         IN  IF ClosingTagRule(trimmed) THEN "html"
             ELSE IF hasHtmlTags(trimmed) /\ markdownScore(trimmed) = 0 THEN "html"
             ELSE IF markdownScore(trimmed) > 0 THEN "markdown"
             ELSE IF startsWith(trimmed, << "<" >>) /\ includes(trimmed, << ">" >>)
                  THEN "html"
             ELSE "html"

----------------------------------------------------------------------------
(* The empty-registry path of PreviewPanel.processedContent: a textual      *)
(* rewrite of the anchors, PreviewPanel.tsx lines 222-246                   *)

\* href=(["'])([^"']*?)\2([^>]*)> matches at position k
HrefMatchesAt(s, k) ==
    /\ AtI(s, k, HREF_EQ)
    /\ k + 5 <= Len(s)
    /\ s[k + 5] \in Quotes
    /\ LET j == FirstIn(s, k + 6, Quotes)
       IN  /\ j <= Len(s)
           /\ s[j] = s[k + 5]
           /\ FirstIn(s, j + 1, { ">" }) <= Len(s)

\* /<a\s+([^>]*?)href=(["'])([^"']*?)\2([^>]*)>/gi tried at position p: \s+ is
\* greedy, the first group is lazy and cannot cross a '>', the value cannot hold
\* a quote of either kind, the last group runs to the next '>'
AnchorMatch(s, p) ==
    IF AtI(s, p, << "<", "a" >>) /\ p + 2 <= Len(s) /\ s[p + 2] \in Ws
    THEN LET w == FirstNotIn(s, p + 2, Ws)
             gt == FirstIn(s, p + 2, { ">" })
             K == { k \in w..(gt - 1) : HrefMatchesAt(s, k) }
         IN  IF K = {} THEN [ok |-> FALSE]
             ELSE LET k == CHOOSE x \in K : \A y \in K : x <= y
                      j == FirstIn(s, k + 6, Quotes)
                      e == FirstIn(s, j + 1, { ">" })
                  IN  [ok |-> TRUE,
                       beforeHref |-> Sub(s, w, k - 1),
                       quote |-> << s[k + 5] >>,
                       url |-> Sub(s, k + 6, j - 1),
                       afterHref |-> Sub(s, j + 1, e - 1),
                       last |-> e]
    ELSE [ok |-> FALSE]

\* the replacer without its tests for a target or rel already written
AnchorReplacementAlwaysAppends(m) ==
    << "<", "a", " " >> \o m.beforeHref \o HREF_EQ \o m.quote \o normalizeUrl(m.url)
        \o m.quote \o m.afterHref \o Attr(TARGET, << "\"" >>, BLANK)
        \o Attr(REL, << "\"" >>, NOOPENER) \o << ">" >>
\* the replacer callback, lines 227-243
AnchorReplacement(m) ==
    LET normalizedUrl == normalizeUrl(m.url)
        newAttrs0 == m.beforeHref \o HREF_EQ \o m.quote \o normalizedUrl
                       \o m.quote \o m.afterHref
        newAttrs1 == IF ~includesI(newAttrs0, TARGET_EQ)
                     THEN newAttrs0 \o Attr(TARGET, << "\"" >>, BLANK) ELSE newAttrs0
        newAttrs2 == IF ~includesI(newAttrs1, REL_EQ)
                     THEN newAttrs1 \o Attr(REL, << "\"" >>, NOOPENER) ELSE newAttrs1
    IN  << "<", "a", " " >> \o newAttrs2 \o << ">" >>

\* htmlContent.replace(regex, replacer) from position p on
RECURSIVE ReplaceAnchorsFrom(_, _)
ReplaceAnchorsFrom(s, p) ==
    IF p > Len(s) THEN << >>
    ELSE LET m == AnchorMatch(s, p)
         IN  IF m.ok THEN AnchorReplacement(m) \o ReplaceAnchorsFrom(s, m.last + 1)
             ELSE << s[p] >> \o ReplaceAnchorsFrom(s, p + 1)

processedHtml(htmlContent) == ReplaceAnchorsFrom(htmlContent, 1)

----------------------------------------------------------------------------
(* parse(html): html-dom-parser's tree of the markup, as called at          *)
(* PreviewPanel.tsx lines 336 and 358. Elements are written with their      *)
(* closing tag; names of tags and attributes are lowercased by the parser.  *)

TextNode(data) == [type |-> "text", data |-> data]
TagNode(name, attribs, children) ==
    [type |-> "tag", name |-> name, attribs |-> attribs, children |-> children]

\* attribs with name set to value; the first occurrence of a name wins
WithAttr(attribs, name, value) ==
    [n \in DOMAIN attribs \cup { name } |-> IF n = name THEN value ELSE attribs[n]]

RECURSIVE ParseAttrs(_, _, _)
ParseAttrs(s, i, acc) ==
    LET a == FirstNotIn(s, i, Ws \cup { "/" })
    IN  IF a > Len(s) THEN [attribs |-> acc, next |-> a]
        ELSE IF s[a] = ">" THEN [attribs |-> acc, next |-> a + 1]
        ELSE LET ne == FirstIn(s, a + 1, Ws \cup { "=", ">", "/" })
                 name == toLowerCase(Sub(s, a, ne - 1))
                 v == IF ~(ne <= Len(s) /\ s[ne] = "=")
                      THEN [value |-> << >>, next |-> ne]
                      ELSE IF ne + 1 <= Len(s) /\ s[ne + 1] \in Quotes
                      THEN LET c == FirstIn(s, ne + 2, { s[ne + 1] })
                           IN  [value |-> Sub(s, ne + 2, c - 1), next |-> c + 1]
                      ELSE LET c == FirstIn(s, ne + 1, Ws \cup { ">" })
                           IN  [value |-> Sub(s, ne + 1, c - 1), next |-> c]
             IN  ParseAttrs(s, v.next,
                            IF name \in DOMAIN acc THEN acc
                            ELSE WithAttr(acc, name, v.value))

\* where the text that starts at i ends: before the next '<' that opens or
\* closes a tag
TextEnd(s, i) ==
    LET opens == { j \in (i + 1)..(Len(s) - 1) :
                     s[j] = "<" /\ s[j + 1] \in Letters \cup { "/" } }
    IN  IF opens = {} THEN Len(s) + 1
        ELSE CHOOSE j \in opens : \A k \in opens : j <= k

\* the sibling nodes from position i up to the closing tag of their parent
RECURSIVE ParseNodes(_, _)
ParseNodes(s, i) ==
    IF i > Len(s) THEN [nodes |-> << >>, next |-> i]
    ELSE IF At(s, i, << "<", "/" >>)
    THEN [nodes |-> << >>, next |-> FirstIn(s, i, { ">" }) + 1]
    ELSE IF s[i] = "<" /\ i < Len(s) /\ s[i + 1] \in Letters
    THEN LET ne == FirstIn(s, i + 1, Ws \cup { ">", "/" })
             name == toLowerCase(Sub(s, i + 1, ne - 1))
             at == ParseAttrs(s, ne, << >>)
             kids == ParseNodes(s, at.next)
             rest == ParseNodes(s, kids.next)
         IN  [nodes |-> << TagNode(name, at.attribs, kids.nodes) >> \o rest.nodes,
              next |-> rest.next]
    ELSE LET e == TextEnd(s, i)
             rest == ParseNodes(s, e)
         IN  [nodes |-> << TextNode(Sub(s, i, e - 1)) >> \o rest.nodes,
              next |-> rest.next]

htmlToDOM(html) == ParseNodes(html, 1).nodes

----------------------------------------------------------------------------
(* JavaScript values that travel through the tree walk: what a renderer     *)
(* returns, what options.replace returns, React elements and their children *)

Undefined == [t |-> "undefined"]
Null == [t |-> "null"]
Str(s) == [t |-> "string", s |-> s]
Num(n) == [t |-> "number", n |-> n]
Arr(items) == [t |-> "array", items |-> items]
\* React.createElement(type, props, children)
Element(type, props, children) ==
    [t |-> "element", type |-> type, props |-> props, children |-> children]

isValidElement(v) == v.t = "element"
\* JavaScript truthiness, as tested by if (v) and !v
Truthy(v) == CASE v.t \in { "undefined", "null" } -> FALSE
               [] v.t = "string" -> v.s # << >>
               [] v.t = "number" -> v.n # 0
               [] OTHER -> TRUE
\* domToReact's return statement: one element alone, otherwise the array
Single(els) == IF Len(els) = 1 THEN els[1] ELSE Arr(els)

A_TAG == << "a" >>
Registered(R, tagName) == tagName \in DOMAIN R

\* how deep renderer invocations may nest before the engine raises RangeError
StackLimit == 3

\* x bound to the value of v in F(x): const x = v
Bind(v, F(_)) == CHOOSE y \in { F(x) : x \in { v } } : TRUE

\* if (domNode.attribs.href) domNode.attribs.href = normalizeUrl(...), lines 259-261
NormalizeHref(attribs) ==
    IF HREF \in DOMAIN attribs /\ attribs[HREF] # << >>
    THEN [attribs EXCEPT ![HREF] = normalizeUrl(attribs[HREF])]
    ELSE attribs
\* if (!domNode.attribs[name]) domNode.attribs[name] = value, lines 263-268
SetIfFalsy(attribs, name, value) ==
    IF name \in DOMAIN attribs /\ attribs[name] # << >> THEN attribs
    ELSE WithAttr(attribs, name, value)
\* the default link pass of options.replace, lines 258-270
DefaultLinkPass(attribs) ==
    SetIfFalsy(SetIfFalsy(NormalizeHref(attribs), TARGET, BLANK), REL, NOOPENER)

\* the guard without its registry test
TakesLinkPassAlways(R, tagName) == tagName = A_TAG
\* the guard of the default link pass, line 257
TakesLinkPass(R, tagName) == tagName = A_TAG /\ ~Registered(R, A_TAG)

TopOptions == [recursive |-> FALSE]
\* recursiveOptions, lines 326-335: a replace that skips tagName and otherwise
\* calls the replace of the top-level options
RecursiveOptions(tagName) == [recursive |-> TRUE, tagName |-> tagName]

\* One call of a replace callback on an element, as the walk records it: the
\* node's tag, the tag whose returned markup the node was parsed from (<< >> for
\* a node of the document), its attribs before and after the call (after is
\* what context.attributes copies), whether the renderer was invoked and the
\* link pass taken, how the call ended, and for a renderer's element: the
\* element's own children, the node's children as walked, the value returned.
Visit(tag, in, original, after, invoked, passed, outcome) ==
    [tag |-> tag, in |-> in, original |-> original, after |-> after,
     invoked |-> invoked, passed |-> passed, outcome |-> outcome,
     own |-> Undefined, kids |-> Undefined, ret |-> Undefined]

\* lines 254-271: the call up to the renderer lookup
Visiting(R, domNode, in) ==
    Bind(TakesLinkPass(R, toLowerCase(domNode.name)), LAMBDA passed :
        Visit(toLowerCase(domNode.name), in, domNode.attribs,
              IF passed THEN DefaultLinkPass(domNode.attribs) ELSE domNode.attribs,
              FALSE, passed, "default"))
\* the renderer was called, line 300
Invoked(seen, outcome) == [seen EXCEPT !.invoked = TRUE, !.outcome = outcome]

NoKids == [els |-> << >>, visits |-> << >>]

\* return undefined, line 353: the library renders the node itself
DefaultRendering(seen) ==
    [ret |-> Undefined, attribs |-> seen.after, visits |-> << seen >>]
\* a catch that puts an empty fragment in the node's place
RendererThrewDropsNode(seen) ==
    [ret |-> Element(<< >>, << >>, Undefined), attribs |-> seen.after,
     visits |-> << seen >>]
\* the catch of lines 345-348, falling through to line 353
RendererThrew(seen) == DefaultRendering(seen)
\* lines 343-344, falling through to line 353
RendererReturnedInvalid(seen) == DefaultRendering(seen)

\* cloneElement of a renderer's element around the node's children, lines 305-317
MergeChildren(result, childElements) ==
    IF Truthy(result.children)
    THEN [result EXCEPT !.children = Arr(<< result.children, childElements >>)]
    ELSE [result EXCEPT !.children = childElements]

\* result.trim().startsWith('<'), line 324
LooksLikeMarkup(s) == startsWith(trim(s), << "<" >>)

RECURSIVE DomToReact(_, _, _, _, _)
RECURSIVE parse(_, _, _, _, _)

\* lines 303-319: the renderer returned a React element
ElementResult(R, domNode, depth, in, seen, result) ==
    IF domNode.children # << >>
    THEN Bind(DomToReact(R, domNode.children, TopOptions, depth + 1, in), LAMBDA walk :
         Bind(MergeChildren(result, Single(walk.els)), LAMBDA merged :
            [ret |-> merged, attribs |-> seen.after,
             visits |-> << [Invoked(seen, "element") EXCEPT
                              !.own = result.children,
                              !.kids = Single(walk.els),
                              !.ret = merged] >> \o walk.visits]))
    ELSE [ret |-> result, attribs |-> seen.after,
          visits |-> << [Invoked(seen, "element") EXCEPT
                           !.own = result.children, !.ret = result] >>]

\* lines 322-341: the renderer returned a string
StringResult(R, depth, seen, result) ==
    IF LooksLikeMarkup(result.s)
    THEN Bind(parse(R, result.s, RecursiveOptions(seen.tag), depth + 1, seen.tag),
              LAMBDA parsed :
                [ret |-> parsed.value, attribs |-> seen.after,
                 visits |-> << Invoked(seen, "markup") >> \o parsed.visits])
    ELSE [ret |-> result, attribs |-> seen.after,
          visits |-> << Invoked(seen, "text") >>]

\* options.replace, lines 251-354. depth counts the renderer invocations on the
\* call stack; in names the tag whose returned markup the node was parsed from.
\* The result carries the value returned, the node's attribs after the call
\* (the link pass writes into the node) and the calls made, in order.
OptionsReplace(R, domNode, depth, in) ==
    IF domNode.type # "tag" \/ domNode.name = << >>
    THEN [ret |-> Undefined, attribs |-> << >>, visits |-> << >>]
    ELSE Bind(Visiting(R, domNode, in), LAMBDA seen :
        IF ~Registered(R, seen.tag) THEN DefaultRendering(seen)
        ELSE IF depth >= StackLimit THEN RendererThrew(Invoked(seen, "overflow"))
        ELSE IF R[seen.tag].does = "throw" THEN RendererThrew(Invoked(seen, "threw"))
        ELSE IF isValidElement(R[seen.tag].value)
        THEN ElementResult(R, domNode, depth, in, seen, R[seen.tag].value)
        ELSE IF R[seen.tag].value.t = "string"
        THEN StringResult(R, depth, seen, R[seen.tag].value)
        ELSE RendererReturnedInvalid(Invoked(seen, "invalid")))

\* recursiveOptions.replace, lines 327-334
RecursiveReplace(R, tagName, node, depth, in) ==
    IF node.type = "tag" /\ node.name = tagName
    THEN DefaultRendering(Visit(node.name, in, node.attribs, node.attribs,
                                FALSE, FALSE, "suppressed"))
    ELSE OptionsReplace(R, node, depth, in)

\* the library's rendering of an element that replace left alone: the node
\* with its attribs, around its children walked with the same options
RenderedByDefault(node, attribs, walk) ==
    Element(node.name, attribs,
            IF node.children # << >> THEN Single(walk.els) ELSE Undefined)

\* a walk that calls replace on a node's children before the node itself
DomToReactChildrenFirst(R, nodes, options, depth, in) ==
    IF nodes = << >> THEN NoKids
    ELSE
    Bind(Head(nodes), LAMBDA node :
    Bind(IF options.recursive
         THEN RecursiveReplace(R, options.tagName, node, depth, in)
         ELSE OptionsReplace(R, node, depth, in), LAMBDA r :
    Bind(DomToReact(R, Tail(nodes), options, depth, in), LAMBDA rest :
        IF isValidElement(r.ret)
        THEN [els |-> << r.ret >> \o rest.els, visits |-> r.visits \o rest.visits]
        ELSE IF node.type = "text"
        THEN [els |-> << Str(node.data) >> \o rest.els,
              visits |-> r.visits \o rest.visits]
        ELSE Bind(DomToReact(R, node.children, options, depth, in), LAMBDA walk :
                [els |-> << RenderedByDefault(node, r.attribs, walk) >> \o rest.els,
                 visits |-> walk.visits \o r.visits \o rest.visits]))))

\* html-react-parser's domToReact(nodes, options): replace is called on every
\* node; a valid element it returns stands for the node, anything else is
\* ignored and the node is rendered by default, its children walked with the
\* same options
DomToReact(R, nodes, options, depth, in) ==
    IF nodes = << >> THEN NoKids
    ELSE
    Bind(Head(nodes), LAMBDA node :
    Bind(IF options.recursive
         THEN RecursiveReplace(R, options.tagName, node, depth, in)
         ELSE OptionsReplace(R, node, depth, in), LAMBDA r :
    Bind(DomToReact(R, Tail(nodes), options, depth, in), LAMBDA rest :
        IF isValidElement(r.ret)
        THEN [els |-> << r.ret >> \o rest.els, visits |-> r.visits \o rest.visits]
        ELSE IF node.type = "text"
        THEN [els |-> << Str(node.data) >> \o rest.els,
              visits |-> r.visits \o rest.visits]
        ELSE Bind(DomToReact(R, node.children, options, depth, in), LAMBDA walk :
                [els |-> << RenderedByDefault(node, r.attribs, walk) >> \o rest.els,
                 visits |-> r.visits \o walk.visits \o rest.visits]))))

\* parse(html, options), html-react-parser
parse(R, html, options, depth, in) ==
    Bind(htmlToDOM(html), LAMBDA dom :
    Bind(DomToReact(R, dom, options, depth, in), LAMBDA walk :
        [value |-> Single(walk.els), visits |-> walk.visits]))

\* what the browser shows for a value: nested arrays flattened, undefined and
\* empty strings dropped, numbers printed
RECURSIVE Shown(_)
RECURSIVE ShownAll(_)
ShownAll(items) == IF items = << >> THEN << >>
                   ELSE Shown(Head(items)) \o ShownAll(Tail(items))
Shown(v) ==
    CASE v.t \in { "undefined", "null" } -> << >>
      [] v.t = "string" -> IF v.s = << >> THEN << >> ELSE << [text |-> v.s] >>
      [] v.t = "number" -> << [text |-> << DigitSeq[v.n + 1] >>] >>
      [] v.t = "array" -> ShownAll(v.items)
      [] v.t = "element" ->
           << [tag |-> v.type, attrs |-> v.props, kids |-> Shown(v.children)] >>

\* what the browser shows for markup set through dangerouslySetInnerHTML
RECURSIVE ShownDom(_)
ShownDom(nodes) ==
    IF nodes = << >> THEN << >>
    ELSE LET n == Head(nodes)
         IN  (IF n.type = "text" THEN << [text |-> n.data] >>
              ELSE << [tag |-> n.name, attrs |-> n.attribs,
                       kids |-> ShownDom(n.children)] >>)
             \o ShownDom(Tail(nodes))

----------------------------------------------------------------------------
(* marked.parse(content, { breaks: true, gfm: true }), called at line 210,  *)
(* on one paragraph of inline content: links are converted, inline markup   *)
(* passes through, the paragraph is wrapped                                 *)


RECURSIVE MdInline(_, _)
MdInline(s, i) ==
    IF i > Len(s) THEN << >>
    ELSE IF BracketParenAt(s, i)
    THEN LET c == FirstIn(s, i + 1, { "]" })
             e == FirstIn(s, c + 2, { ")" })
         IN  << "<", "a", " " >> \o HREF_EQ \o << "\"" >> \o Sub(s, c + 2, e - 1)
               \o << "\"", ">" >> \o Sub(s, i + 1, c - 1) \o << "<", "/", "a", ">" >>
               \o MdInline(s, e + 1)
    ELSE << s[i] >> \o MdInline(s, i + 1)

marked(src) == IF trim(src) = << >> THEN << >>
               ELSE << "<", "p", ">" >> \o MdInline(trim(src), 1)
                      \o << "<", "/", "p", ">", "\n" >>

----------------------------------------------------------------------------
(* PreviewPanel.processedContent, lines 198-372 *)

\* a conversion whose failure leaves no markup
htmlContentOfNothingOnFailure(text, hint, fault) ==
    LET actualContentType == IF hint = "auto" THEN detectContentType(text) ELSE hint
    IN  IF actualContentType = "markdown"
        THEN IF fault = "marked" THEN << >> ELSE marked(text)
        ELSE text
\* a pipeline that converts only on the caller's hint and never classifies
htmlContentOfHintOnly(text, hint, fault) ==
    IF hint = "markdown"
    THEN IF fault = "marked" THEN text ELSE marked(text)
    ELSE text
\* lines 200-220: the markup handed to the renderer stage
htmlContentOf(text, hint, fault) ==
    LET actualContentType == IF hint = "auto" THEN detectContentType(text) ELSE hint
    IN  IF actualContentType = "markdown"
        THEN IF fault = "marked" THEN text ELSE marked(text)
        ELSE text

\* the render without the catch of lines 367-371
ParseFallbackRethrows(htmlContent) ==
    [type |-> "thrown", content |-> htmlContent, visits |-> << >>]
\* the catch of lines 367-371
ParseFallback(htmlContent) ==
    [type |-> "html", content |-> htmlContent, visits |-> << >>]

\* lines 358-366: the walk's value, or the markup when it is not renderable
Parsed(htmlContent, p) ==
    IF Truthy(p.value) /\ (p.value.t = "array" \/ isValidElement(p.value))
    THEN [type |-> "react", elements |-> p.value, visits |-> p.visits]
    ELSE [type |-> "html", content |-> htmlContent, visits |-> p.visits]

\* fault names the library call that throws in this render, if any
processedContent(text, hint, R, fault) ==
    Bind(htmlContentOf(text, hint, fault), LAMBDA htmlContent :
        IF DOMAIN R = {}
        THEN [type |-> "html", content |-> processedHtml(htmlContent),
              visits |-> << >>]
        ELSE IF fault = "parse" THEN ParseFallback(htmlContent)
        ELSE Parsed(htmlContent, parse(R, htmlContent, TopOptions, 0, << >>)))

\* what the preview shows, lines 389-393
Preview(r) == IF r.type = "html" THEN ShownDom(htmlToDOM(r.content))
              ELSE Shown(r.elements)

----------------------------------------------------------------------------
(* The inputs of a render *)

DQ == << "\"" >>
SQ == << "'" >>
Bare == << >>
Elem(name, attrsText, inner) ==
    << "<" >> \o name \o attrsText \o << ">" >> \o inner \o << "<", "/" >> \o name \o << ">" >>

B_TAG == << "b" >>
U_TAG == << "u" >>
S_TAG == << "s" >>
X == << "x" >>
K == << "k" >>
DOMAIN_URL == << "e", ".", "c" >>
PATH_URL == << "/", "p" >>
MAILTO_URL == << "m", ":", "x" >>

AnchorAttrs ==
    { Attr(HREF, DQ, DOMAIN_URL),
      Attr(HREF, Bare, DOMAIN_URL),
      << >>,
      Attr(HREF, DQ, DOMAIN_URL) \o Attr(TARGET, DQ, << >>),
      Attr(TARGET, DQ, << "t" >>) \o Attr(HREF, SQ, PATH_URL) \o Attr(REL, DQ, << "r" >>),
      Attr(HREF, DQ, MAILTO_URL) }

\* how deep the documents nest their anchor
MaxNest == 1
RECURSIVE Nested(_, _)
Nested(n, inner) == IF n = 0 THEN inner ELSE Elem(B_TAG, << >>, Nested(n - 1, inner))

BOLD_X == Elem(B_TAG, << >>, X)
MD_LINK == << "[", "x", "]", "(" >> \o DOMAIN_URL \o << ")" >>

Contents ==
    { Nested(n, Elem(A_TAG, at, X)) : n \in 0..MaxNest, at \in AnchorAttrs }
    \cup { Elem(U_TAG, << >>, BOLD_X) \o Elem(A_TAG, at, X) : at \in AnchorAttrs }
    \cup { BOLD_X, Elem(U_TAG, << >>, BOLD_X), BOLD_X \o Elem(U_TAG, << >>, X),
           Elem(B_TAG, << >>, << >>), X, << >>, MD_LINK,
           K \o << " " >> \o MD_LINK \o << " " >> \o K }

Throws == [does |-> "throw"]
Returns(v) == [does |-> "return", value |-> v]

RenderersOfA ==
    { Returns(Element(A_TAG, << >>, Undefined)),
      Returns(Str(Elem(A_TAG, Attr(HREF, DQ, DOMAIN_URL), K))) }
RenderersOfB ==
    { Throws,
      Returns(Undefined),
      Returns(Str(K)),
      Returns(Str(Elem(U_TAG, << >>, Elem(B_TAG, << >>, K)))),
      Returns(Element(S_TAG, << >>, Undefined)),
      Returns(Element(S_TAG, << >>, Str(K))),
      Returns(Element(S_TAG, << >>, Num(0))) }
RenderersOfU ==
    { Returns(Element(S_TAG, << >>, Undefined)),
      Returns(Str(Elem(B_TAG, << >>, K))),
      Returns(Str(Elem(B_TAG, << >>, K) \o Elem(B_TAG, << >>, K))) }

Choices(tag, set) == { << >> } \cup { [n \in { tag } |-> r] : r \in set }
Merge(f, g) == [n \in DOMAIN f \cup DOMAIN g |-> IF n \in DOMAIN f THEN f[n] ELSE g[n]]
Registries ==
    { Merge(ra, Merge(rb, ru)) : ra \in Choices(A_TAG, RenderersOfA),
                                 rb \in Choices(B_TAG, RenderersOfB),
                                 ru \in Choices(U_TAG, RenderersOfU) }

Hints == { "html", "markdown", "auto" }
Faults == { "none", "parse", "marked" }

NoResult == [type |-> "none"]

----------------------------------------------------------------------------
(* The image node: CustomImage and CustomImageNodeView *)

SRC == "src"
ALT == "alt"
TITLE == "title"

\* String(v)
String(v) == IF v.t = "string" THEN v.s ELSE << "n", "u", "l", "l" >>
\* a || b
OrElse(a, b) == IF Truthy(a) THEN a ELSE b
\* v != null && v !== ''
Given(v) == v.t \notin { "undefined", "null" } /\ v # Str(<< >>)


\* the test of line 148 of use-element-width.ts
CarriesAttributeText(trimmedSrc) ==
    \/ includes(trimmedSrc, << " ", "a", "l", "t", "=" >>)
    \/ includes(trimmedSrc, << " ", "t", "i", "t", "l", "e", "=" >>)
    \/ includes(trimmedSrc, << "a", "l", "t", "=", "\"" >>)
    \/ includes(trimmedSrc, << "t", "i", "t", "l", "e", "=", "\"" >>)

\* lines 143-164: originalSrc cleaned of attribute text
CleanOriginalSrc(originalSrc) ==
    IF Truthy(originalSrc) /\ originalSrc.t = "string"
    THEN LET trimmedSrc == trim(originalSrc.s)
         IN  IF CarriesAttributeText(trimmedSrc)
             THEN LET spaceIndex == indexOf(trimmedSrc, << " " >>) - 1
                  IN  IF spaceIndex > 0
                      THEN Str(Sub(trimmedSrc, 1, spaceIndex))
                      ELSE LET urlMatch == Sub(trimmedSrc, 1,
                                               FirstIn(trimmedSrc, 1, Ws \cup Quotes) - 1)
                           IN  IF urlMatch # << >> THEN Str(urlMatch) ELSE originalSrc
             ELSE Str(trimmedSrc)
    ELSE originalSrc

\* the attributes tiptap renders from the node's own, handed to renderHTML
HTMLAttributesOf(n) == [k \in { SRC, ALT, TITLE } |-> n[k]]

\* the attributes of the img that renderHTML returns, lines 136-195
AttrsWith(attrs, key, v) ==
    IF Given(v)
    THEN [k \in DOMAIN attrs \cup { key } |-> IF k = key THEN trim(String(v)) ELSE attrs[k]]
    ELSE attrs
\* the serializer of the parent Image extension, which emits the src attribute
renderHTMLOfSrcAttribute(HTMLAttributes, n) ==
    AttrsWith(AttrsWith(AttrsWith(<< >>, SRC, HTMLAttributes[SRC]), ALT, n.alt),
              TITLE, n.title)
\* CustomImage.renderHTML
renderHTML(HTMLAttributes, n) ==
    LET originalSrc == CleanOriginalSrc(OrElse(n.originalSrc, n.src))
        rest == [k \in { j \in DOMAIN HTMLAttributes \ { SRC, ALT, TITLE } :
                         HTMLAttributes[j].t = "string" } |-> HTMLAttributes[k].s]
    IN  AttrsWith(AttrsWith(AttrsWith(rest, SRC, originalSrc), ALT, n.alt),
                  TITLE, n.title)

\* the enrichment functions an application passes as renderImage
CDN == << "c", "/" >>
TOKEN == << "?", "t" >>
ApplyRenderImage(f, url) ==
    CASE f = "token" -> Str(url.s \o TOKEN)
      [] f = "proxy" -> Str(CDN \o url.s)
\* CustomImageNodeView, line 7: the node's canonical URL
canonicalSrc(n) == OrElse(n.originalSrc, n.src)
\* the src of an img that shows the src attribute, enriched
displaySrcOfSrcAttribute(n, f) ==
    IF f # "none" /\ Truthy(n.src) THEN ApplyRenderImage(f, n.src) ELSE n.src
\* CustomImageNodeView, line 17: the src of the img it renders
displaySrcOf(n, f) ==
    LET originalSrc == canonicalSrc(n)
    IN  IF f # "none" /\ Truthy(originalSrc) THEN ApplyRenderImage(f, originalSrc)
        ELSE originalSrc

\* setImage, lines 200-209
setImage(options) ==
    [src |-> options.src, originalSrc |-> options.src,
     alt |-> options.alt, title |-> options.title]

\* the filterImageSrc functions an application passes: "same" returns its
\* argument, "deny" returns false, "cdn" rewrites the URL, "local" returns null
\* for a URL with a query and the URL itself otherwise
False == [t |-> "boolean", b |-> FALSE]
ApplyFilterImageSrc(f, src) ==
    CASE f = "same" -> src
      [] f = "deny" -> False
      [] f = "cdn" -> Str(CDN \o src.s)
      [] f = "local" -> IF includes(src.s, << "?" >>) THEN Null ELSE src

DATA_ORIGINAL_SRC == "data-original-src"
\* what getAttrs returns for an element the rule does not take
Rejected == False
\* addAttributes, originalSrc.parseHTML, lines 86-89
originalSrcParseHTML(el) == OrElse(el[DATA_ORIGINAL_SRC], el[SRC])
\* parseHTML, getAttrs of the rule img[src], lines 102-125
getAttrs(el, filter) ==
    LET src == el[SRC]
        result == IF filter # "none" THEN ApplyFilterImageSrc(filter, src) ELSE src
    IN  IF ~Truthy(src) THEN Rejected
        ELSE IF filter # "none" /\ result \in { False, Null } THEN Rejected
        ELSE [src |-> result, originalSrc |-> result,
              alt |-> el[ALT], title |-> el[TITLE]]
\* the rule as tiptap installs it: the attributes getAttrs returned, each
\* overwritten by what the attribute's own parseHTML gives (for src, alt and
\* title, which have none, by the element's attribute) unless that is null
parseRule(el, filter) ==
    LET oldAttributes == getAttrs(el, filter)
        own == [src |-> el[SRC], originalSrc |-> originalSrcParseHTML(el),
                alt |-> el[ALT], title |-> el[TITLE]]
    IN  IF oldAttributes = Rejected THEN Rejected
        ELSE [k \in DOMAIN oldAttributes |->
                IF own[k].t \in { "null", "undefined" } THEN oldAttributes[k]
                ELSE own[k]]

IMG == << "i", ".", "p" >>
ALT_TEXT == << " ", "a", "l", "t", "=", "\"", "a", "\"" >>
ImageUrls ==
    { IMG, IMG \o TOKEN, << " " >> \o IMG \o << " " >>, IMG \o ALT_TEXT,
      IMG \o Tail(ALT_TEXT), Tail(ALT_TEXT), << >> }
ImageOptions ==
    [src : { Str(u) : u \in ImageUrls }, alt : { Null, Str(<< "a" >>) }, title : { Null }]
ImageNodes ==
    [src : { Str(u) : u \in ImageUrls },
     originalSrc : { Null } \cup { Str(u) : u \in ImageUrls },
     alt : { Null, Str(<< "a" >>) }, title : { Null }]
RenderImages == { "none", "token", "proxy" }
FilterImageSrcs == { "none", "same", "deny", "cdn", "local" }
NoNode == [src |-> Null, originalSrc |-> Null, alt |-> Null, title |-> Null]
\* the img elements of pasted or loaded markup: getAttribute gives null for an
\* attribute the element does not have
ImageElement(src, original, alt) ==
    [k \in { SRC, DATA_ORIGINAL_SRC, ALT, TITLE } |->
        CASE k = SRC -> src
          [] k = DATA_ORIGINAL_SRC -> original
          [] k = ALT -> alt
          [] OTHER -> Null]
ImageElements ==
    { ImageElement(src, original, alt) :
        src \in { Null, Str(<< >>), Str(IMG), Str(IMG \o TOKEN), Str(CDN \o IMG) },
        original \in { Null, Str(<< >>), Str(IMG) },
        alt \in { Null, Str(<< "a" >>) } }
NoElement == [k \in { SRC, DATA_ORIGINAL_SRC, ALT, TITLE } |-> Null]

----------------------------------------------------------------------------
(* The texts handed to detectContentType *)

Tokens ==
    << << "<", "p", ">" >>, << "<", "/", "p", ">" >>, << "x" >>, << "*", "*" >>,
       << "#", " " >>, << "|" >>, << "\n" >>, << " " >>, << "-" >>, << Backtick >> >>
\* the longest text, in tokens
MaxTokens == 4
RECURSIVE TextsOf(_)
TextsOf(n) == IF n = 0 THEN { << >> }
              ELSE LET shorter == TextsOf(n - 1)
                   IN  shorter \cup { t \o Tokens[i] : t \in shorter, i \in DOMAIN Tokens }
Texts == TextsOf(MaxTokens)

----------------------------------------------------------------------------
(* The strings handed to normalizeUrl *)

UrlTokens ==
    << << " " >>, << "e" >>, << "1" >>, << "." >>, << "-" >>, << "/" >>,
       << "#" >>, << ":" >>, HTTPS_PREFIX >>
\* the longest URL, in tokens
MaxUrlTokens == 5
RECURSIVE UrlsOf(_)
UrlsOf(n) == IF n = 0 THEN { << >> }
             ELSE LET shorter == UrlsOf(n - 1)
                  IN  shorter \cup { t \o UrlTokens[i] : t \in shorter, i \in DOMAIN UrlTokens }
Urls == UrlsOf(MaxUrlTokens)

----------------------------------------------------------------------------
(* The URIs and the extra schemes handed to isAllowedUri *)

JAVASCRIPT == << "j", "a", "v", "a", "s", "c", "r", "i", "p", "t" >>
UriTokens ==
    << << " " >>, << "\t" >>, << "e" >>, << "E" >>, << "1" >>, << "." >>, << "-" >>,
       << "/" >>, << ":" >>, << "H", "t", "t", "p" >>, JAVASCRIPT >>
\* the longest URI, in tokens
MaxUriTokens == 4
RECURSIVE UrisOf(_)
UrisOf(n) == IF n = 0 THEN { << >> }
             ELSE LET shorter == UrisOf(n - 1)
                  IN  shorter \cup { t \o UriTokens[i] : t \in shorter, i \in DOMAIN UriTokens }
Uris == UrisOf(MaxUriTokens)
\* the protocols argument: none, the scheme e, the scheme e.e
ProtocolConfigs == { { }, { << "e" >> }, { << "e", ".", "e" >> } }

----------------------------------------------------------------------------
(* State *)

VARIABLES
    pc,            \* "ready" before the operation of the specification, "done" after
    content,       \* PreviewPanel's content prop; the text to classify
    contentType,   \* its contentType prop
    renderers,     \* its renderers prop
    fault,         \* the library call that fails during this render
    result,        \* processedContent
    visits,        \* the replace calls of the walk, in order
    detected,      \* what detectContentType returned
    node,          \* the attrs of the editor's image node
    renderImage,   \* the renderImage option of CustomImage
    shownSrc,      \* the src of the img the node view rendered
    exported,      \* the img attributes getHTML gave for the node, if it ran
    isSelected,    \* the node view's isSelected state
    filterImageSrc,\* the filterImageSrc option of CustomImage
    element,       \* the img element the node was parsed from, if it was
    ingestedSrc,   \* the node's canonical URL when it was created or parsed
    url,           \* the argument of normalizeUrl or of isAllowedUri
    protocols,     \* the protocols argument of isAllowedUri
    normalized,    \* what normalizeUrl returned
    allowed,       \* whether isAllowedUri returned a truthy value
    isOverflowing, \* useToolbarOverflow's state, the flag it returns
    previousStateRef, \* its previousStateRef.current
    lastCheck,     \* what the last run of checkOverflow read
    imageItems,    \* the image items of the pasted clipboard
    uploadPromises,\* the promise handlePaste made for each item
    insertions,    \* the insertContent calls made, each with its image nodes
    currentLanguage,   \* the module variable of lib/i18n
    languageListeners, \* use-i18n's listener set: consumer -> the language its listener captured
    consumers      \* the components that called useI18n

vars == << pc, content, contentType, renderers, fault, result, visits,
           detected, node, renderImage, shownSrc, exported,
           isSelected, filterImageSrc, element, ingestedSrc,
           url, protocols, normalized, allowed,
           isOverflowing, previousStateRef, lastCheck,
           imageItems, uploadPromises, insertions,
           currentLanguage, languageListeners, consumers >>
previewVars == << content, contentType, renderers, fault, result, visits >>
imageVars == << node, renderImage, shownSrc, exported,
               isSelected, filterImageSrc, element, ingestedSrc >>
urlVars == << url, protocols, normalized, allowed >>
toolbarVars == << isOverflowing, previousStateRef, lastCheck >>
pasteVars == << imageItems, uploadPromises, insertions >>
i18nVars == << currentLanguage, languageListeners, consumers >>
editorVars == << toolbarVars, pasteVars, i18nVars >>

NoPreview ==
    /\ contentType = "html"
    /\ renderers = << >>
    /\ fault = "none"
    /\ result = NoResult
    /\ visits = << >>
NoImage ==
    /\ node = NoNode
    /\ renderImage = "none"
    /\ shownSrc = Undefined
    /\ exported = NoResult
    /\ isSelected = FALSE
    /\ filterImageSrc = "none"
    /\ element = NoElement
    /\ ingestedSrc = Null
NoUrl ==
    /\ url = << >>
    /\ protocols = { }
    /\ normalized = NoResult
    /\ allowed = NoResult
NoElementWidths == [scrollWidth |-> 0, clientWidth |-> 0]
NoCheck == [checked |-> FALSE, current |-> FALSE, toolbar |-> NoElementWidths,
            innerWidth |-> 0, windowWidth |-> 0,
            overflowAmount |-> 0, wasOverflowing |-> FALSE]
NoToolbarHook ==
    /\ isOverflowing = FALSE
    /\ previousStateRef = FALSE
    /\ lastCheck = NoCheck
NoPaste ==
    /\ imageItems = << >>
    /\ uploadPromises = << >>
    /\ insertions = << >>
NoI18n ==
    /\ currentLanguage = "zh"
    /\ languageListeners = << >>
    /\ consumers = << >>
NoEditor == NoToolbarHook /\ NoPaste /\ NoI18n

----------------------------------------------------------------------------
(* Rendering a preview *)

Init ==
    /\ pc = "ready"
    /\ content \in Contents
    /\ contentType \in Hints
    /\ renderers \in Registries
    /\ fault \in Faults
    /\ result = NoResult
    /\ visits = << >>
    /\ detected = "none"
    /\ NoImage
    /\ NoEditor
    /\ NoUrl

\* the useMemo callback of processedContent
Render ==
    /\ pc = "ready"
    /\ \E r \in { processedContent(content, contentType, renderers, fault) } :
          /\ result' = [f \in DOMAIN r \ { "visits" } |-> r[f]]
          /\ visits' = r.visits
    /\ pc' = "done"
    /\ UNCHANGED << content, contentType, renderers, fault, detected >>
    /\ UNCHANGED imageVars
    /\ UNCHANGED editorVars
    /\ UNCHANGED urlVars

Next == Render

Spec == Init /\ [][Next]_vars

----------------------------------------------------------------------------
(* Classifying a text *)

InitClassify ==
    /\ pc = "ready"
    /\ content \in Texts
    /\ detected = "none"
    /\ NoPreview
    /\ NoImage
    /\ NoEditor
    /\ NoUrl

Classify ==
    /\ pc = "ready"
    /\ detected' = detectContentType(content)
    /\ pc' = "done"
    /\ UNCHANGED << content, contentType, renderers, fault, result, visits >>
    /\ UNCHANGED imageVars
    /\ UNCHANGED editorVars
    /\ UNCHANGED urlVars

NextClassify == Classify

SpecClassify == InitClassify /\ [][NextClassify]_vars

----------------------------------------------------------------------------
(* Normalizing a URL *)

InitNormalize ==
    /\ pc = "ready"
    /\ url \in Urls
    /\ protocols = { }
    /\ normalized = NoResult
    /\ allowed = NoResult
    /\ content = << >>
    /\ detected = "none"
    /\ NoPreview
    /\ NoImage
    /\ NoEditor

Normalize ==
    /\ pc = "ready"
    /\ normalized' = normalizeUrl(url)
    /\ pc' = "done"
    /\ UNCHANGED << url, protocols, allowed, content, detected >>
    /\ UNCHANGED previewVars
    /\ UNCHANGED imageVars
    /\ UNCHANGED editorVars

NextNormalize == Normalize

SpecNormalize == InitNormalize /\ [][NextNormalize]_vars

----------------------------------------------------------------------------
(* Checking a URI against the allow-list *)

InitUri ==
    /\ pc = "ready"
    /\ url \in Uris
    /\ protocols \in ProtocolConfigs
    /\ normalized = NoResult
    /\ allowed = NoResult
    /\ content = << >>
    /\ detected = "none"
    /\ NoPreview
    /\ NoImage
    /\ NoEditor

IsAllowedUri ==
    /\ pc = "ready"
    /\ allowed' = isAllowedUri(url, protocols)
    /\ pc' = "done"
    /\ UNCHANGED << url, protocols, normalized, content, detected >>
    /\ UNCHANGED previewVars
    /\ UNCHANGED imageVars
    /\ UNCHANGED editorVars

NextUri == IsAllowedUri

SpecUri == InitUri /\ [][NextUri]_vars

----------------------------------------------------------------------------
(* Showing and serializing an image node *)

InitImage ==
    /\ pc = "editing"
    /\ node \in ImageNodes
    /\ renderImage \in RenderImages
    /\ filterImageSrc \in FilterImageSrcs
    /\ shownSrc = Undefined
    /\ exported = NoResult
    /\ isSelected = FALSE
    /\ element = NoElement
    /\ ingestedSrc = canonicalSrc(node)
    /\ content = << >>
    /\ detected = "none"
    /\ NoPreview
    /\ NoUrl
    /\ NoEditor

\* editor.commands.setImage(options)
SetImage ==
    /\ \E options \in ImageOptions : node' = setImage(options)
    /\ ingestedSrc' = canonicalSrc(node')
    /\ element' = NoElement
    /\ shownSrc' = Undefined
    /\ exported' = NoResult
    /\ isSelected' = FALSE
    /\ UNCHANGED << pc, renderImage, filterImageSrc, detected >>
    /\ UNCHANGED previewVars
    /\ UNCHANGED urlVars
    /\ UNCHANGED editorVars

\* markup holding an img element is pasted or loaded, and the rule takes it
Ingest ==
    /\ \E el \in ImageElements :
          /\ el[SRC] # Null
          /\ parseRule(el, filterImageSrc) # Rejected
          /\ node' = parseRule(el, filterImageSrc)
          /\ element' = el
    /\ ingestedSrc' = canonicalSrc(node')
    /\ shownSrc' = Undefined
    /\ exported' = NoResult
    /\ isSelected' = FALSE
    /\ UNCHANGED << pc, renderImage, filterImageSrc, detected >>
    /\ UNCHANGED previewVars
    /\ UNCHANGED urlVars
    /\ UNCHANGED editorVars

\* the same, and the rule does not take the element: no image node is made
IngestRejected ==
    /\ \E el \in ImageElements :
          /\ el[SRC] = Null \/ parseRule(el, filterImageSrc) = Rejected
          /\ element' = el
    /\ node' = NoNode
    /\ ingestedSrc' = Null
    /\ shownSrc' = Undefined
    /\ exported' = NoResult
    /\ isSelected' = FALSE
    /\ UNCHANGED << pc, renderImage, filterImageSrc, detected >>
    /\ UNCHANGED previewVars
    /\ UNCHANGED urlVars
    /\ UNCHANGED editorVars

\* a node view that stores the URL it shows in the node
PresentStoresDisplaySrc ==
    /\ node # NoNode
    /\ shownSrc' = displaySrcOf(node, renderImage)
    /\ node' = [node EXCEPT !.originalSrc = shownSrc']
    /\ UNCHANGED << pc, renderImage, exported, detected,
                    isSelected, filterImageSrc, element, ingestedSrc >>
    /\ UNCHANGED previewVars
    /\ UNCHANGED urlVars
    /\ UNCHANGED editorVars

\* CustomImageNodeView renders the node
Present ==
    /\ node # NoNode
    /\ shownSrc' = displaySrcOf(node, renderImage)
    /\ UNCHANGED << pc, node, renderImage, exported, detected,
                    isSelected, filterImageSrc, element, ingestedSrc >>
    /\ UNCHANGED previewVars
    /\ UNCHANGED urlVars
    /\ UNCHANGED editorVars

\* the application passes another renderImage: the node view reads it from
\* extension.options at its next render
Configure ==
    /\ renderImage' \in RenderImages \ { renderImage }
    /\ UNCHANGED << pc, node, shownSrc, exported, detected,
                    isSelected, filterImageSrc, element, ingestedSrc >>
    /\ UNCHANGED previewVars
    /\ UNCHANGED urlVars
    /\ UNCHANGED editorVars

\* the selection moves onto or off the node: the selected prop changes, the
\* effect of lines 12-14 stores it and the node view renders again
Select ==
    /\ node # NoNode
    /\ isSelected' = ~isSelected
    /\ shownSrc' = displaySrcOf(node, renderImage)
    /\ UNCHANGED << pc, node, renderImage, exported, detected,
                    filterImageSrc, element, ingestedSrc >>
    /\ UNCHANGED previewVars
    /\ UNCHANGED urlVars
    /\ UNCHANGED editorVars

\* editor.getHTML() serializes the node
Serialize ==
    /\ node # NoNode
    /\ exported' = renderHTML(HTMLAttributesOf(node), node)
    /\ UNCHANGED << pc, node, renderImage, shownSrc, detected,
                    isSelected, filterImageSrc, element, ingestedSrc >>
    /\ UNCHANGED previewVars
    /\ UNCHANGED urlVars
    /\ UNCHANGED editorVars

NextImage ==
    SetImage \/ Ingest \/ IngestRejected \/ Present \/ Configure \/ Select \/ Serialize

SpecImage == InitImage /\ [][NextImage]_vars

----------------------------------------------------------------------------
(* The toolbar's overflow flag: useToolbarOverflow *)

HYSTERESIS_THRESHOLD == 5
\* the window width from which the simplified mode is off
FullModeWidth == 650

\* window.innerWidth || document.documentElement.clientWidth
windowWidthOf(innerWidth, clientWidth) ==
    IF innerWidth # 0 THEN innerWidth ELSE clientWidth
\* the two comparisons of checkOverflow
shouldBeOverflowing(wasOverflowing, overflowAmount) ==
    IF wasOverflowing THEN overflowAmount > -HYSTERESIS_THRESHOLD
    ELSE overflowAmount > HYSTERESIS_THRESHOLD

\* what a check can find: no element, or an element with its two widths
ClientWidths == { 300, 400, 500 }
OverflowAmounts == { -6, -5, -4, 0, 4, 5, 6 }
Toolbars == { [scrollWidth |-> c + a, clientWidth |-> c] :
                c \in ClientWidths, a \in OverflowAmounts }
InnerWidths == { 0, 649, 650 }
DocumentWidths == { 649, 650 }

InitToolbar ==
    /\ pc = "mounted"
    /\ NoToolbarHook
    /\ NoPaste
    /\ NoI18n
    /\ content = << >>
    /\ detected = "none"
    /\ NoPreview
    /\ NoImage
    /\ NoUrl

\* a run of checkOverflow: the element of toolbarRef.current and the
\* window's innerWidth at that time, and the run's windowWidth, overflowAmount
\* and wasOverflowing (0 and the ref's value where the run returned before)
CheckRead(toolbar, innerWidth, windowWidth, overflowAmount, wasOverflowing) ==
    [checked |-> TRUE, current |-> toolbar # NoElementWidths, toolbar |-> toolbar,
     innerWidth |-> innerWidth, windowWidth |-> windowWidth,
     overflowAmount |-> overflowAmount, wasOverflowing |-> wasOverflowing]

\* checkOverflow with toolbarRef.current null
CheckWithoutToolbar ==
    /\ pc = "mounted"
    /\ isOverflowing' = FALSE
    /\ previousStateRef' = FALSE
    /\ \E innerWidth \in InnerWidths :
          lastCheck' = CheckRead(NoElementWidths, innerWidth, 0, 0, previousStateRef)
    /\ UNCHANGED << pc, content, detected >>
    /\ UNCHANGED << previewVars, imageVars, urlVars, pasteVars, i18nVars >>

\* checkOverflow with an element: the run of the initial check, of the
\* ResizeObserver or of the window's resize listener
CheckOverflow ==
    /\ pc = "mounted"
    /\ \E toolbar \in Toolbars, innerWidth \in InnerWidths, width \in DocumentWidths :
        \E windowWidth \in { windowWidthOf(innerWidth, width) } :
          IF windowWidth >= FullModeWidth
          THEN /\ isOverflowing' = FALSE
               /\ previousStateRef' = FALSE
               /\ lastCheck' = CheckRead(toolbar, innerWidth, windowWidth, 0, previousStateRef)
          ELSE \E overflowAmount \in { toolbar.scrollWidth - toolbar.clientWidth },
                  wasOverflowing \in { previousStateRef } :
                 /\ lastCheck' = CheckRead(toolbar, innerWidth, windowWidth,
                                         overflowAmount, wasOverflowing)
                 /\ IF shouldBeOverflowing(wasOverflowing, overflowAmount) # wasOverflowing
                    THEN /\ isOverflowing' = shouldBeOverflowing(wasOverflowing, overflowAmount)
                         /\ previousStateRef' = shouldBeOverflowing(wasOverflowing, overflowAmount)
                    ELSE UNCHANGED << isOverflowing, previousStateRef >>
    /\ UNCHANGED << pc, content, detected >>
    /\ UNCHANGED << previewVars, imageVars, urlVars, pasteVars, i18nVars >>

NextToolbar == CheckWithoutToolbar \/ CheckOverflow

SpecToolbar == InitToolbar /\ [][NextToolbar]_vars

----------------------------------------------------------------------------
(* Pasting images: handlePaste of the editor's editorProps *)

MAX_FILE_SIZE == 20 * 1024 * 1024
PASTED_IMAGE == << "p", "a", "s", "t", "e", "d", "-", "i", "m", "a", "g", "e" >>
MaxItems == 3

\* name.replace(/\.[^/.]+$/, ""): the text from the last '.' on is dropped when
\* at least one character follows that '.' and none of them is a '/'
WithoutExtension(name) ==
    LET dots == { i \in DOMAIN name : name[i] = "." }
    IN  IF dots = { } THEN name
        ELSE LET d == CHOOSE i \in dots : \A j \in dots : j <= i
             IN  IF d < Len(name) /\ \A i \in (d + 1)..Len(name) : name[i] # "/"
                 THEN Sub(name, 1, d - 1)
                 ELSE name
\* file.name.replace(/\.[^/.]+$/, "") || "pasted-image"
altOf(name) ==
    IF WithoutExtension(name) # << >> THEN WithoutExtension(name) ELSE PASTED_IMAGE

\* the files of clipboard items, and an item's file: null when getAsFile()
\* gives none
FileNames == { << "a", ".", "g" >>, << ".", "g" >> }
FileSizes == { MAX_FILE_SIZE, MAX_FILE_SIZE + 1 }
Files == [name : FileNames, size : FileSizes]
ClipboardItems == { [file |-> Null] } \cup { [file |-> f] : f \in Files }
RECURSIVE ItemsOf(_)
ItemsOf(n) ==
    IF n = 0 THEN { << >> }
    ELSE { Append(items, item) : items \in ItemsOf(n - 1), item \in ClipboardItems }
Clipboards == UNION { ItemsOf(n) : n \in 1..MaxItems }
\* the URLs an upload resolves to
UploadUrls == { CDN \o << "1" >>, CDN \o << "2" >> }

\* the promise of one async callback of imageItems.map: settled with null for
\* an item without a file or with a file over the maximum, else pending on
\* the upload it started
uploadPromise(item) ==
    IF item.file = Null THEN [state |-> "fulfilled", value |-> Null, upload |-> "none"]
    ELSE IF item.file.size > MAX_FILE_SIZE
    THEN [state |-> "fulfilled", value |-> Null, upload |-> "none"]
    ELSE [state |-> "pending", value |-> Null, upload |-> "pending"]

\* a promise that is fulfilled as soon as one of the promises is
AnyFulfilled(promises) == \E i \in DOMAIN promises : promises[i].state = "fulfilled"
\* Promise.all(uploadPromises) is fulfilled: none of the promises rejects, so
\* it is when every one of them is fulfilled
PromiseAllFulfilled(promises) ==
    \A i \in DOMAIN promises : promises[i].state = "fulfilled"
\* results.filter(result => result !== null)
validResults(promises) ==
    SelectSeq([i \in DOMAIN promises |-> promises[i].value], LAMBDA r : r # Null)
\* validResults.map(result => ({ type: "image", attrs: ... }))
imageNodesOf(results) ==
    [i \in DOMAIN results |->
        [src |-> Str(results[i].url), originalSrc |-> Str(results[i].url),
         alt |-> Str(results[i].alt), title |-> Str(results[i].alt)]]

InitPaste ==
    /\ pc = "ready"
    /\ imageItems \in Clipboards
    /\ uploadPromises = << >>
    /\ insertions = << >>
    /\ NoToolbarHook
    /\ NoI18n
    /\ content = << >>
    /\ detected = "none"
    /\ NoPreview
    /\ NoImage
    /\ NoUrl

\* handlePaste on a clipboard with image items: every callback of the map runs
\* to its first await before the handler returns
HandlePaste ==
    /\ pc = "ready"
    /\ uploadPromises' = [i \in DOMAIN imageItems |-> uploadPromise(imageItems[i])]
    /\ pc' = "uploading"
    /\ UNCHANGED << imageItems, insertions, content, detected >>
    /\ UNCHANGED << previewVars, imageVars, urlVars, toolbarVars, i18nVars >>

\* imageUploadHandler's promise for item i resolves with a URL
UploadResolves ==
    /\ pc = "uploading"
    /\ \E i \in DOMAIN uploadPromises, u \in UploadUrls :
        /\ uploadPromises[i].state = "pending"
        /\ uploadPromises' = [uploadPromises EXCEPT ![i] =
              [state |-> "fulfilled",
               value |-> [url |-> u, alt |-> altOf(imageItems[i].file.name)],
               upload |-> "resolved"]]
    /\ UNCHANGED << pc, imageItems, insertions, content, detected >>
    /\ UNCHANGED << previewVars, imageVars, urlVars, toolbarVars, i18nVars >>

\* imageUploadHandler's promise for item i rejects: the catch returns null
UploadRejects ==
    /\ pc = "uploading"
    /\ \E i \in DOMAIN uploadPromises :
        /\ uploadPromises[i].state = "pending"
        /\ uploadPromises' = [uploadPromises EXCEPT ![i] =
              [state |-> "fulfilled", value |-> Null, upload |-> "rejected"]]
    /\ UNCHANGED << pc, imageItems, insertions, content, detected >>
    /\ UNCHANGED << previewVars, imageVars, urlVars, toolbarVars, i18nVars >>

\* the then-callback of Promise.all(uploadPromises), with the editor mounted
InsertPasted ==
    /\ pc = "uploading"
    /\ PromiseAllFulfilled(uploadPromises)
    /\ insertions' = IF Len(validResults(uploadPromises)) > 0
                     THEN Append(insertions, imageNodesOf(validResults(uploadPromises)))
                     ELSE insertions
    /\ pc' = "done"
    /\ UNCHANGED << imageItems, uploadPromises, content, detected >>
    /\ UNCHANGED << previewVars, imageVars, urlVars, toolbarVars, i18nVars >>

NextPaste == HandlePaste \/ UploadResolves \/ UploadRejects \/ InsertPasted

SpecPaste == InitPaste /\ [][NextPaste]_vars

----------------------------------------------------------------------------
(* The language of the interface: lib/i18n and useI18n *)

Languages == { "zh", "en" }
\* the components that call useI18n()
Components == { "c1", "c2" }

\* getLanguage()
getLanguage(language) == language
\* getTranslations(): the table of the current language, named by its language
getTranslations(language) == [of |-> language]

Put(f, k, v) == [x \in DOMAIN f \cup { k } |-> IF x = k THEN v ELSE f[x]]
Drop(f, k) == [x \in DOMAIN f \ { k } |-> f[x]]

\* handleLanguageChange of a listener that captured currentLang, called with
\* the language lang: the state update it queues for its component, if any
handleLanguageChange(consumer, captured, lang) ==
    IF lang # captured THEN [consumer EXCEPT !.queued = lang] ELSE consumer

InitI18n ==
    /\ pc = "running"
    /\ NoI18n
    /\ NoToolbarHook
    /\ NoPaste
    /\ content = << >>
    /\ detected = "none"
    /\ NoPreview
    /\ NoImage
    /\ NoUrl

\* the first render of a component that calls useI18n(): useState(getLanguage())
\* and useMemo(() => getTranslations()); its effects wait for the commit
Mount ==
    /\ pc = "running"
    /\ \E c \in Components \ DOMAIN consumers :
        consumers' = Put(consumers, c,
            [currentLang |-> getLanguage(currentLanguage),
             translations |-> getTranslations(currentLanguage),
             queued |-> "none", effect |-> TRUE])
    /\ UNCHANGED << pc, currentLanguage, languageListeners, content, detected >>
    /\ UNCHANGED << previewVars, imageVars, urlVars, toolbarVars, pasteVars >>

\* the effect of lines 24-36, after the cleanup of the render before: the
\* listener of the old render is deleted and one that captured this render's
\* currentLang is added
RunEffect ==
    /\ pc = "running"
    /\ \E c \in DOMAIN consumers :
        /\ consumers[c].effect
        /\ languageListeners' = Put(languageListeners, c, consumers[c].currentLang)
        /\ consumers' = [consumers EXCEPT ![c].effect = FALSE]
    /\ UNCHANGED << pc, currentLanguage, content, detected >>
    /\ UNCHANGED << previewVars, imageVars, urlVars, toolbarVars, pasteVars >>

\* the language effect of SimpleEditor: setLanguage(language) and then
\* notifyLanguageChange(), which calls every listener of the set
ChangeLanguage ==
    /\ pc = "running"
    /\ \E lang \in Languages :
        /\ currentLanguage' = lang
        /\ consumers' = [c \in DOMAIN consumers |->
              IF c \in DOMAIN languageListeners
              THEN handleLanguageChange(consumers[c], languageListeners[c],
                                        getLanguage(lang))
              ELSE consumers[c]]
    /\ UNCHANGED << pc, languageListeners, content, detected >>
    /\ UNCHANGED << previewVars, imageVars, urlVars, toolbarVars, pasteVars >>

\* React renders a component with a queued setCurrentLang, after the effects
\* of its render before: a changed currentLang recomputes the memo from the
\* language current at this render and schedules the effect again
Rerender ==
    /\ pc = "running"
    /\ \E c \in DOMAIN consumers :
        /\ consumers[c].queued # "none"
        /\ ~consumers[c].effect
        /\ consumers' = [consumers EXCEPT ![c] =
              IF consumers[c].queued # consumers[c].currentLang
              THEN [currentLang |-> consumers[c].queued,
                    translations |-> getTranslations(currentLanguage),
                    queued |-> "none", effect |-> TRUE]
              ELSE [consumers[c] EXCEPT !.queued = "none"]]
    /\ UNCHANGED << pc, currentLanguage, languageListeners, content, detected >>
    /\ UNCHANGED << previewVars, imageVars, urlVars, toolbarVars, pasteVars >>

\* a component unmounts: the cleanup of line 33 deletes its listener
Unmount ==
    /\ pc = "running"
    /\ \E c \in DOMAIN consumers :
        /\ consumers' = Drop(consumers, c)
        /\ languageListeners' = Drop(languageListeners, c)
    /\ UNCHANGED << pc, currentLanguage, content, detected >>
    /\ UNCHANGED << previewVars, imageVars, urlVars, toolbarVars, pasteVars >>

NextI18n == Mount \/ RunEffect \/ ChangeLanguage \/ Rerender \/ Unmount

SpecI18n == InitI18n /\ [][NextI18n]_vars

----------------------------------------------------------------------------
(* Properties of the renderer stage, checked under Spec *)

Rendered == pc = "done" /\ fault = "none"
Unregister(R, tag) == [n \in DOMAIN R \ { tag } |-> R[n]]
Brief(vs) == [i \in DOMAIN vs |->
                [tag |-> vs[i].tag, in |-> vs[i].in, outcome |-> vs[i].outcome]]
VisitsOfOthers(vs, tag) == Brief(SelectSeq(vs, LAMBDA v : v.tag # tag))

\* C1: inside the fragment parsed from the markup string that the transform of
\* tag T returned, a node's transform is invoked if and only if the node's tag
\* is registered and differs from T; no node named T has T's transform
\* invoked again.
C1_TransformSkippedInOwnFragment ==
    Rendered =>
        \A i \in DOMAIN visits :
            visits[i].in # << >> =>
                (visits[i].invoked <=>
                    (visits[i].tag # visits[i].in
                        /\ Registered(renderers, visits[i].tag)))

\* a transform that throws, or returns neither an element nor a string
Fails(r) ==
    \/ r.does = "throw"
    \/ r.does = "return" /\ ~isValidElement(r.value) /\ r.value.t # "string"

\* C2: a transform that throws or returns an invalid value leaves the render
\* as it is without that transform: its nodes are rendered by default, the
\* failure does not leave the render, and every other node is visited with the
\* same outcome and the same result.
C2_FailingTransformFallsBack ==
    Rendered =>
        \A tag \in DOMAIN renderers \ { A_TAG } :
            (Fails(renderers[tag]) /\ DOMAIN renderers # { tag }) =>
                LET without == processedContent(content, contentType,
                                                Unregister(renderers, tag), fault)
                IN  /\ result.type = without.type
                    /\ Preview(result) = Preview(without)
                    /\ VisitsOfOthers(visits, tag) = VisitsOfOthers(without.visits, tag)

\* a transform threw on a node and a later node got its transform's element
C2_Witness ==
    /\ Rendered
    /\ result.type = "react"
    /\ \E i, j \in DOMAIN visits :
          /\ i < j
          /\ visits[i].outcome = "threw"
          /\ visits[j].tag # visits[i].tag
          /\ visits[j].outcome = "element"

\* the anchor the default link pass is said to leave: href normalized, target
\* and rel kept when the anchor carries them, whatever their value
ExpectedAnchor(attribs) ==
    LET a1 == IF HREF \in DOMAIN attribs
              THEN [attribs EXCEPT ![HREF] = normalizeUrl(attribs[HREF])]
              ELSE attribs
        a2 == IF TARGET \in DOMAIN a1 THEN a1 ELSE WithAttr(a1, TARGET, BLANK)
    IN  IF REL \in DOMAIN a2 THEN a2 ELSE WithAttr(a2, REL, NOOPENER)
RECURSIVE ExpectedLinks(_)
ExpectedLinks(shown) ==
    [i \in DOMAIN shown |->
        IF "tag" \in DOMAIN shown[i]
        THEN [tag |-> shown[i].tag,
              attrs |-> IF shown[i].tag = A_TAG THEN ExpectedAnchor(shown[i].attrs)
                        ELSE shown[i].attrs,
              kids |-> ExpectedLinks(shown[i].kids)]
        ELSE shown[i]]
NoTransformApplied == \A i \in DOMAIN visits : ~visits[i].invoked

\* C4: with no transform registered for the anchor tag, on the empty-registry
\* path and on the tree-walk path alike, every anchor is shown with its href
\* normalized, with target "_blank" unless it carried a target, and with rel
\* "noopener noreferrer" unless it carried a rel.
C4_DefaultLinkPassOnEveryAnchor ==
    (Rendered /\ ~Registered(renderers, A_TAG) /\ NoTransformApplied) =>
        Preview(result) =
            ExpectedLinks(ShownDom(htmlToDOM(htmlContentOf(content, contentType, fault))))

\* C5: on an anchor the default link pass and a registered transform exclude
\* each other: with a transform registered the pass is skipped and the node's
\* attributes reach the transform as they were; with none the pass is applied.
C5_LinkPassOrTransform ==
    pc = "done" =>
        \A i \in DOMAIN visits :
            visits[i].tag = A_TAG =>
                /\ ~(visits[i].passed /\ visits[i].invoked)
                /\ Registered(renderers, A_TAG) =>
                      (~visits[i].passed /\ visits[i].after = visits[i].original)
                /\ ~Registered(renderers, A_TAG) =>
                      (visits[i].passed /\ ~visits[i].invoked)

\* the transform of the anchor tag was invoked on an anchor that has an href
C5_Witness ==
    /\ Rendered
    /\ \E i \in DOMAIN visits :
          /\ visits[i].tag = A_TAG
          /\ visits[i].invoked
          /\ visits[i].outcome \in { "element", "markup" }
          /\ HREF \in DOMAIN visits[i].original

\* C8: the empty-registry path shows what the tree-walk path shows under a
\* registry none of whose transforms applies to a node of the document.
C8_PathsAgree ==
    (Rendered /\ DOMAIN renderers # {} /\ NoTransformApplied) =>
        Preview(result) = Preview(processedContent(content, contentType, << >>, fault))

\* C9: a render never throws; when the parse or the walk fails, the result is
\* the content as one literal markup fragment.
C9_RenderNeverThrows ==
    pc = "done" =>
        /\ result.type \in { "html", "react" }
        /\ (fault = "parse" /\ DOMAIN renderers # {}) =>
              result = [type |-> "html",
                        content |-> htmlContentOf(content, contentType, fault)]

\* the parse failed under a registry and the preview shows the literal content
C9_Witness ==
    /\ pc = "done"
    /\ fault = "parse"
    /\ DOMAIN renderers # {}
    /\ content # << >>
    /\ result.type = "html"
    /\ result.content = content

\* C10: an element returned for a node that has children keeps them: its
\* children are its own children followed by the node's processed children.
C10_ChildrenMerged ==
    Rendered =>
        \A i \in DOMAIN visits :
            (visits[i].outcome = "element" /\ visits[i].kids # Undefined) =>
                Shown(visits[i].ret.children)
                    = Shown(visits[i].own) \o Shown(visits[i].kids)

\* the tags of the document's elements in document order, parents first
RECURSIVE PreOrder(_)
PreOrder(nodes) ==
    IF nodes = << >> THEN << >>
    ELSE (IF Head(nodes).type = "tag"
          THEN << Head(nodes).name >> \o PreOrder(Head(nodes).children)
          ELSE << >>) \o PreOrder(Tail(nodes))
RECURSIVE IsSubsequence(_, _)
IsSubsequence(a, b) ==
    IF a = << >> THEN TRUE
    ELSE IF b = << >> THEN FALSE
    ELSE IF Head(a) = Head(b) THEN IsSubsequence(Tail(a), Tail(b))
    ELSE IsSubsequence(a, Tail(b))
TagsOf(vs) == [i \in DOMAIN vs |-> vs[i].tag]
\* the renderer invocations on nodes of the document, in the order made
InvokedInDocument == SelectSeq(visits, LAMBDA v : v.in = << >> /\ v.invoked)
\* the document's elements that have a renderer, in document order
RegisteredInDocument ==
    SelectSeq(PreOrder(htmlToDOM(htmlContentOf(content, contentType, fault))),
              LAMBDA tag : Registered(renderers, tag))

\* C16: within one render the renderers are invoked in document order: the
\* invocations on the document's nodes, in the order made, follow the pre-order
\* of the document, a node's before those of its descendants and of the nodes
\* after it.
C16_InvokedInDocumentOrder ==
    pc = "done" => IsSubsequence(TagsOf(InvokedInDocument), RegisteredInDocument)

\* the renderer of an ancestor, which returned an element, then that of its
\* descendant, which threw, then that of the node after them were invoked
C16_Witness ==
    /\ pc = "done"
    /\ content = Elem(U_TAG, << >>, BOLD_X) \o Elem(A_TAG, << >>, X)
    /\ TagsOf(InvokedInDocument) = << U_TAG, B_TAG, A_TAG >>
    /\ InvokedInDocument[1].outcome = "element"
    /\ InvokedInDocument[2].outcome = "threw"

\* the document is one b element and only b has a renderer, which returns
\* the text k
OnlyBoldReturnsText ==
    /\ Rendered
    /\ renderers = [n \in { B_TAG } |-> Returns(Str(K))]
    /\ LET dom == htmlToDOM(htmlContentOf(content, contentType, fault))
       IN  Len(dom) = 1 /\ dom[1].type = "tag" /\ dom[1].name = B_TAG

\* C17 as stated: when a renderer returns a string that does not begin with
\* '<', the preview has exactly that string as text in the node's place, and
\* replace is called on nothing inside the node.
C17_TextResultReplacesNode ==
    OnlyBoldReturnsText =>
        /\ Preview(result) = << [text |-> K] >>
        /\ Len(visits) = 1

\* marked.parse was called in this render and threw
MarkedThrew ==
    /\ pc = "done"
    /\ fault = "marked"
    /\ (IF contentType = "auto" THEN detectContentType(content) ELSE contentType)
         = "markdown"

\* C18: when the conversion of lightweight markup throws, the render ends
\* without an exception and gives what the raw text gives when it is taken
\* for markup as it is: the same link pass, the same renderer calls, the same
\* output.
C18_FailedConversionUsesRawText ==
    MarkedThrew =>
        \A r \in { processedContent(content, "html", renderers, "none") } :
            /\ result.type \in { "html", "react" }
            /\ result = [f \in DOMAIN r \ { "visits" } |-> r[f]]
            /\ visits = r.visits

\* the conversion threw on text holding an element and an anchor; the renderer
\* of the element was invoked and the anchor took the link pass
C18_Witness ==
    /\ MarkedThrew
    /\ content = Elem(U_TAG, << >>, BOLD_X) \o Elem(A_TAG, Attr(HREF, DQ, DOMAIN_URL), X)
    /\ result.type = "react"
    /\ \E i, j \in DOMAIN visits :
          /\ visits[i].tag = U_TAG /\ visits[i].invoked
          /\ visits[j].tag = A_TAG /\ visits[j].passed
          /\ visits[j].after[HREF] = HTTPS_PREFIX \o DOMAIN_URL

\* an anchor with exactly these attributes is shown, at any depth
RECURSIVE ShowsAnchor(_, _)
ShowsAnchor(shown, attrs) ==
    \E i \in DOMAIN shown :
        /\ "tag" \in DOMAIN shown[i]
        /\ \/ shown[i].tag = A_TAG /\ shown[i].attrs = attrs
           \/ ShowsAnchor(shown[i].kids, attrs)
\* content left to the classifier, which holds a link to a bare domain
AutoTypedLink ==
    /\ Rendered
    /\ contentType = "auto"
    /\ \E i \in 1..Len(content) : At(content, i, MD_LINK)
    /\ ~Registered(renderers, A_TAG)

\* C24: content of type 'auto' that holds a lightweight-markup link to a bare
\* domain, rendered with no renderer for a, is classified 'markdown' and shown
\* with an anchor whose href is https:// and the domain, whose target is
\* "_blank" and whose rel is "noopener noreferrer".
C24_BareDomainLinkEndToEnd ==
    AutoTypedLink =>
        /\ detectContentType(content) = "markdown"
        /\ ShowsAnchor(Preview(result),
                       WithAttr(WithAttr(WithAttr(<< >>, HREF, HTTPS_PREFIX \o DOMAIN_URL),
                                         TARGET, BLANK), REL, NOOPENER))

\* the link stood between words and the render walked the tree under a
\* registry for other tags
C24_Witness ==
    /\ AutoTypedLink
    /\ content = K \o << " " >> \o MD_LINK \o << " " >> \o K
    /\ result.type = "react"
    /\ \E i \in DOMAIN visits :
          /\ visits[i].tag = A_TAG
          /\ visits[i].passed
          /\ visits[i].original[HREF] = DOMAIN_URL

\* the document of the render and its anchors
Document == htmlToDOM(htmlContentOf(content, contentType, fault))
AnchorsOf(nodes) == SelectSeq(PreOrder(nodes), LAMBDA tag : tag = A_TAG)
PassedInDocument == SelectSeq(visits, LAMBDA v : v.in = << >> /\ v.passed)

\* C25: the default link pass is not applied twice. In a tree walk the
\* document's anchors take it at most once each, and passing the attributes it
\* left a second time changes none of them; on the empty-registry path
\* rewriting the rewritten markup again gives the same markup.
C25_LinkPassAppliedOnce ==
    Rendered =>
        /\ Len(PassedInDocument) <= Len(AnchorsOf(Document))
        /\ \A i \in DOMAIN visits :
              visits[i].passed =>
                  DefaultLinkPass(visits[i].after) = visits[i].after
        /\ (result.type = "html" /\ DOMAIN renderers = {}) =>
              processedHtml(result.content) = result.content

\* a walk passed an anchor with a bare-domain href, which came out with
\* https://, target and rel
C25_WitnessTree ==
    /\ Rendered
    /\ result.type = "react"
    /\ \E i \in DOMAIN visits :
          /\ visits[i].passed
          /\ visits[i].original = WithAttr(<< >>, HREF, DOMAIN_URL)
          /\ visits[i].after[HREF] = HTTPS_PREFIX \o DOMAIN_URL
          /\ visits[i].after[TARGET] = BLANK
\* the empty-registry path rewrote an anchor: its markup changed
C25_Witness ==
    /\ Rendered
    /\ DOMAIN renderers = {}
    /\ result.type = "html"
    /\ result.content # htmlContentOf(content, contentType, fault)
    /\ includesI(result.content, TARGET_EQ)

\* every transform of the registry returns
TransformsReturn == \A t \in DOMAIN renderers : renderers[t].does = "return"
\* a transform's invocation was ended by the engine's stack limit
StackExhausted == \E i \in DOMAIN visits : visits[i].outcome = "overflow"

\* C26: when every transform of the registry returns, the render ends because
\* the tags suppressed by outer re-parses stay suppressed in the nested ones:
\* no invocation of a transform is ended by the engine's stack limit, also
\* when a cycle goes through two tags or through the children of a
\* transform's element.
C26_SuppressionEndsRecursion ==
    (Rendered /\ TransformsReturn) => ~StackExhausted

----------------------------------------------------------------------------
(* Properties of the classifier, checked under SpecClassify *)

\* a tag-like token starts at position i: '<', an optional '/', a letter, and
\* a '>' somewhere after
TagTokenAt(s, i, closing) ==
    /\ s[i] = "<"
    /\ LET j == IF i < Len(s) /\ s[i + 1] = "/" THEN i + 2 ELSE i + 1
       IN  /\ closing => j = i + 2
           /\ j <= Len(s)
           /\ s[j] \in Letters
           /\ FirstIn(s, j + 1, { ">" }) <= Len(s)
TagTokens(s, closing) == Cardinality({ i \in 1..Len(s) : TagTokenAt(s, i, closing) })

\* C6: a text with two or more tag-like tokens, one of them a closing tag, is
\* classified 'html', whatever lightweight-markup signatures it also holds.
C6_PairedTagsAreHtml ==
    (pc = "done" /\ TagTokens(trim(content), FALSE) >= 2
                 /\ TagTokens(trim(content), TRUE) >= 1)
        => detected = "html"

\* C7: a text that matches a lightweight-markup signature and on which the
\* closing-tag rule did not fire is classified 'markdown'.
C7_SignatureIsMarkdown ==
    (pc = "done" /\ markdownScore(trim(content)) > 0 /\ ~ClosingTagRule(trim(content)))
        => detected = "markdown"

\* a text with a tag and a signature was classified
C7_Witness ==
    /\ pc = "done"
    /\ hasHtmlTags(trim(content))
    /\ markdownScore(trim(content)) > 0
    /\ detected = "markdown"

\* C22: a text on which no lightweight-markup signature matches is classified
\* 'html', with tag-like tokens or without, plain text included.
C22_NoSignatureIsHtml ==
    (pc = "done" /\ markdownScore(trim(content)) = 0) => detected = "html"

\* a plain text with no tag and no signature was classified
C22_Witness ==
    /\ pc = "done"
    /\ content = << "x", " ", "-", "x" >>
    /\ ~hasHtmlTags(content)
    /\ markdownScore(content) = 0
    /\ detected = "html"

\* C23: an empty text and a text of whitespace only are classified 'html'.
C23_BlankIsHtml ==
    (pc = "done" /\ \A i \in DOMAIN content : content[i] \in Ws) => detected = "html"

\* a text of spaces and line breaks was classified
C23_Witness ==
    /\ pc = "done"
    /\ content = << " ", "\n", " " >>
    /\ detected = "html"

----------------------------------------------------------------------------
(* Properties of the image node, checked under SpecImage *)

Serialized == exported # NoResult

\* C3 as stated: the src that serialize emits is the node's canonicalSrc.
C3_SrcIsCanonicalSrc ==
    Serialized =>
        (Truthy(canonicalSrc(node)) =>
            (SRC \in DOMAIN exported /\ exported[SRC] = canonicalSrc(node).s))

\* the canonical URL as serialize cleans it: trimmed, and cut at its first
\* space, or else at its first quote, when it carries attribute text
CleanedCanonicalSrc(n) ==
    LET t == trim(canonicalSrc(n).s)
        space == FirstIn(t, 1, { " " })
        quote == FirstIn(t, 1, Ws \cup Quotes)
    IN  IF ~CarriesAttributeText(t) THEN t
        ELSE IF space <= Len(t) THEN Sub(t, 1, space - 1)
        ELSE IF quote > 1 THEN Sub(t, 1, quote - 1)
        ELSE t

\* C3: serialize emits as src the node's canonicalSrc, trimmed and cleaned of
\* attribute text, and no src when that is empty; what it emits depends on the
\* node alone, not on renderImage or on the src the node view shows.
C3_SrcIsCleanedCanonicalSrc ==
    Serialized =>
        IF Truthy(canonicalSrc(node)) /\ CleanedCanonicalSrc(node) # << >>
        THEN SRC \in DOMAIN exported /\ exported[SRC] = CleanedCanonicalSrc(node)
        ELSE SRC \notin DOMAIN exported

\* a node shown with an enriched src, whose src attribute is not its canonical
\* URL, was serialized
C3_Witness ==
    /\ Serialized
    /\ renderImage = "token"
    /\ node.originalSrc = Str(IMG)
    /\ node.src = Str(IMG \o TOKEN)
    /\ shownSrc = Str(IMG \o TOKEN)
    /\ exported[SRC] = IMG

\* C11: the node's canonicalSrc is the one it got when it was created or
\* parsed: renders of the node view, another renderImage, selection changes and
\* serializations leave it as it was.
C11_CanonicalSrcFixedAtIngestion ==
    node # NoNode => canonicalSrc(node) = ingestedSrc

\* a node parsed from an img whose src is enriched was shown under one
\* renderImage, then another was configured, the node was selected and
\* serialized, and its canonical URL is still the element's original one
C11_Witness ==
    /\ element = ImageElement(Str(IMG \o TOKEN), Str(IMG), Null)
    /\ ingestedSrc = Str(IMG)
    /\ canonicalSrc(node) = Str(IMG)
    /\ renderImage = "token"
    /\ shownSrc = Str(CDN \o IMG)
    /\ isSelected
    /\ Serialized

Ingested == node # NoNode /\ element # NoElement

\* C20 as stated: the canonicalSrc of a parsed node is the element's
\* data-original-src when it has one and its src otherwise, and both routes of
\* ingestion, the originalSrc attribute's parseHTML and the rule's getAttrs,
\* give that same canonicalSrc.
C20_IngestionRoutesAgree ==
    Ingested =>
        /\ canonicalSrc(node) = IF Truthy(element[DATA_ORIGINAL_SRC])
                                THEN element[DATA_ORIGINAL_SRC]
                                ELSE element[SRC]
        /\ canonicalSrc(getAttrs(element, filterImageSrc)) = originalSrcParseHTML(element)

\* an img element with a src was handed to the rule while a filterImageSrc
\* was configured
Filtered ==
    /\ element # NoElement
    /\ Truthy(element[SRC])
    /\ filterImageSrc # "none"

\* C21 as stated: with a filter configured, an image for which the filter
\* returns null or false makes no node, and an image for which it returns a
\* string gets that string, not the element's src, as its canonicalSrc.
C21_FilterRejectsOrRewrites ==
    Filtered =>
        \A r \in { ApplyFilterImageSrc(filterImageSrc, element[SRC]) } :
            IF r \in { False, Null } THEN node = NoNode
            ELSE node # NoNode /\ canonicalSrc(node) = r

----------------------------------------------------------------------------
(* Properties of normalizeUrl, checked under SpecNormalize *)

Normalized == pc = "done"
SchemeChars == AlNum \cup { "+", ".", "-" }
\* s begins with scheme ':'
ExplicitScheme(s) ==
    \E i \in 2..Len(s) :
        /\ s[i] = ":"
        /\ s[1] \in Letters
        /\ \A j \in 2..(i - 1) : s[j] \in SchemeChars
\* s is label.label[.label...], each label alphanumeric with hyphens inside
IsBareDomain(s) ==
    /\ s # << >>
    /\ \A i \in DOMAIN s : s[i] \in AlNum \cup { "-", "." }
    /\ \E i \in DOMAIN s : s[i] = "."
    /\ s[1] \in AlNum
    /\ s[Len(s)] \in AlNum
    /\ \A i \in DOMAIN s :
          s[i] = "." => (i > 1 /\ i < Len(s) /\ s[i - 1] \in AlNum /\ s[i + 1] \in AlNum)

\* C12: an input of bare-domain shape is returned with https:// before it.
C12_BareDomainGetsHttps ==
    (Normalized /\ IsBareDomain(url)) => normalized = HTTPS_PREFIX \o url

\* a hyphenated bare domain was normalized
C12_Witness ==
    /\ Normalized
    /\ url = << "e", "-", "1", ".", "e" >>
    /\ normalized = HTTPS_PREFIX \o url

\* C13 as stated: an input with an explicit scheme is returned equal to the
\* argument.
C13_SchemeUnchanged ==
    (Normalized /\ ExplicitScheme(url)) => normalized = url

\* C13: an input whose trimmed form has an explicit scheme is returned
\* trimmed, with nothing else changed; it is returned equal to the argument
\* when the argument has no whitespace at either end.
C13_SchemeTrimmed ==
    (Normalized /\ ExplicitScheme(trim(url))) =>
        /\ normalized = trim(url)
        /\ (url = trim(url) => normalized = url)

\* a padded input with a scheme that is not http was normalized, and one that
\* reads as host:port is its own witness of the scheme rule going first
C13_Witness ==
    /\ Normalized
    /\ url = << " ", "e", ".", "e", ":" >>
    /\ normalized = << "e", ".", "e", ":" >>

\* C14 as stated: an input with no explicit scheme and not of bare-domain
\* shape is returned equal to the argument, never with a guessed prefix.
C14_OtherTextUnchanged ==
    (Normalized /\ ~ExplicitScheme(url) /\ ~IsBareDomain(url)) => normalized = url

\* C28: normalizeUrl is idempotent: normalizing its own output returns that
\* output, and an output that was given the https:// prefix is not given it
\* again.
C28_NormalizeIdempotent ==
    Normalized => normalizeUrl(normalized) = normalized

\* a bare domain with spaces around it was prefixed, and normalizing the
\* prefixed output left it as it was
C28_Witness ==
    /\ Normalized
    /\ url # trim(url)
    /\ LooksLikeDomain(trim(url))
    /\ normalized = HTTPS_PREFIX \o trim(url)
    /\ HasHttpScheme(normalized)
    /\ normalizeUrl(normalized) = normalized

----------------------------------------------------------------------------
(* Properties of isAllowedUri, checked under SpecUri *)

Checked == pc = "done"
\* the URI with its control and whitespace characters removed
Stripped == SelectSeq(url, LAMBDA c : c \notin AttrWhitespace)
\* t begins with one of the ten schemes or of the caller's, and ':'
BeginsWithAllowedScheme(t) ==
    \E p \in AllowedProtocols \cup protocols :
        /\ AtI(t, 1, p)
        /\ Len(t) > Len(p)
        /\ t[Len(p) + 1] = ":"

\* C15 as stated: the URI is accepted exactly when its stripped form begins
\* with an allowed scheme and ':' or has no scheme-colon structure at all, so
\* that a stripped form that begins with any other scheme is rejected.
C15_AcceptsExactlyAllowedSchemes ==
    Checked =>
        /\ allowed <=> (BeginsWithAllowedScheme(Stripped) \/ ~ExplicitScheme(Stripped))
        /\ (ExplicitScheme(Stripped) /\ ~BeginsWithAllowedScheme(Stripped)) => ~allowed

----------------------------------------------------------------------------
(* Properties of the toolbar's overflow flag, checked under SpecToolbar *)

\* the last check ran with an element under a window narrower than 650px
MeasuredCheck ==
    lastCheck.checked /\ lastCheck.current /\ lastCheck.windowWidth < FullModeWidth

----------------------------------------------------------------------------
(* Properties of pasting images, checked under SpecPaste *)

\* the items that had a file of at most the maximum size and whose upload
\* resolved, in clipboard order
UploadedItems ==
    SelectSeq([i \in DOMAIN uploadPromises |->
                  [file |-> imageItems[i].file, promise |-> uploadPromises[i]]],
              LAMBDA x : /\ x.file # Null
                         /\ x.file.size <= MAX_FILE_SIZE
                         /\ x.promise.upload = "resolved")
\* an image node for each of them, src and originalSrc the uploaded URL
NodesOfUploaded ==
    [i \in DOMAIN UploadedItems |->
        [src |-> Str(UploadedItems[i].promise.value.url),
         originalSrc |-> Str(UploadedItems[i].promise.value.url),
         alt |-> Str(altOf(UploadedItems[i].file.name)),
         title |-> Str(altOf(UploadedItems[i].file.name))]]
UploadsInFlight ==
    { i \in DOMAIN uploadPromises : uploadPromises[i].upload = "pending" }

\* C29: the uploads of a paste run side by side: every item with a file within
\* the maximum has its upload started before any settles. The editor inserts
\* at most once and not while an upload is in flight; once the paste is done
\* the inserted nodes are those of the items with a file within the maximum
\* whose upload resolved, in clipboard order, src and originalSrc the uploaded
\* URL, whatever happened to the other items; nothing is inserted when there
\* is none.
C29_OneInsertionOfUploaded ==
    /\ Len(insertions) <= 1
    /\ insertions # << >> => UploadsInFlight = { }
    /\ pc = "uploading" =>
          \A i \in DOMAIN imageItems :
              (imageItems[i].file # Null /\ imageItems[i].file.size <= MAX_FILE_SIZE)
                  => uploadPromises[i].upload # "none"
    /\ pc = "done" =>
          insertions = IF UploadedItems = << >> THEN << >> ELSE << NodesOfUploaded >>

\* three items were pasted; the uploads of the first and the last resolved with
\* different URLs, the one between was too large or its upload rejected, and
\* the two images were inserted in clipboard order
C29_Witness ==
    /\ pc = "done"
    /\ Len(imageItems) = 3
    /\ uploadPromises[1].upload = "resolved"
    /\ uploadPromises[2].value = Null
    /\ imageItems[2].file # Null
    /\ uploadPromises[3].upload = "resolved"
    /\ uploadPromises[1].value.url # uploadPromises[3].value.url
    /\ Len(insertions) = 1
    /\ Len(insertions[1]) = 2
    /\ insertions[1][1].src = Str(uploadPromises[1].value.url)
    /\ insertions[1][2].originalSrc = Str(uploadPromises[3].value.url)

----------------------------------------------------------------------------
(* Properties of the interface language, checked under SpecI18n *)

\* no component has a render or an effect outstanding
Quiescent ==
    \A c \in DOMAIN consumers :
        consumers[c].queued = "none" /\ ~consumers[c].effect
\* every mounted component shows the language set last
ConsumersAgree ==
    \A c \in DOMAIN consumers :
        /\ consumers[c].currentLang = currentLanguage
        /\ consumers[c].translations = getTranslations(currentLanguage)

\* C30: the listener set holds listeners of mounted components only, and once
\* the renders and effects that a language change set off have run, every
\* mounted component has currentLanguage and translations of the language set
\* last, whatever the order of mounts, unmounts and language changes was.
C30_ConsumersFollowLanguage ==
    /\ DOMAIN languageListeners \subseteq DOMAIN consumers
    /\ Quiescent => ConsumersAgree

\* the half of C30 about unmounted components
C30_ListenersAreMounted == DOMAIN languageListeners \subseteq DOMAIN consumers

====
